---- MODULE Spec2Model ----
(***************************************************************************)
(* Miyabi parallel executor (scripts/agents-parallel-executor.ts) and the  *)
(* agents it drives (ReviewAgent, CodeGenAgent, PRAgent, IssueAgent).      *)
(*                                                                         *)
(*   Spec        the CLI run: loadConfig, fetchIssues, buildDAG and        *)
(*               executeDAG with one pipeline (executeIssue) per node      *)
(*   SpecDAG     buildDAG applied to fetched issue lists                   *)
(*   SpecReview  ReviewAgent.review applied to tool observations           *)
(*   SpecPublish the createPR steps of the nodes of one batch               *)
(*   SpecGenerateWithRetry, SpecCallOpenAI                                  *)
(*               the retry loops of features/issue-23 and issue-34         *)
(*   SpecMcq     normalizeMcq and normalizeMcqWithText (features/issue-22) *)
(*   SpecAudit   createAuditLog (features/issue-31)                        *)
(*   SpecCodeGen the generation mode of CodeGenAgent                       *)
(*   SpecSplit   splitIntoChunks (lib/chunking)                            *)
(*   SpecBatching                                                          *)
(*               --concurrency and the batches of one level of executeDAG  *)
(***************************************************************************)
EXTENDS Integers, Sequences, FiniteSets, TLC

\* ------------------------------------------------------------------ bounds
\* issue numbers 1..NumIds exist in the tracker; NumIds+1 is a number that
\* is referenced but never supplied
NumIds == 2
\* longest --issues list
MaxIssues == 3
\* most reference clauses in one issue body (SpecDAG)
MaxTokens == 2
\* largest --concurrency
MaxConcurrency == 2
\* largest maxRetries of the retry loops
MaxRetriesBound == 4
\* longest answer typed into normalizeMcq / normalizeMcqWithText
MaxInputLen == 3

\* splitIntoChunks: texts of up to MaxTextLen characters, chunk sizes up to
\* MaxChunkSize, and at most MaxChunks iterations of the loop
MaxTextLen == 4

MaxChunkSize == 3

MaxChunks == 6

\* the batches of one level: option strings of up to MaxOptionLen characters,
\* up to MaxLevelNodes nodes in the level, at most MaxBatches iterations of
\* the partitioning loop
MaxOptionLen == 2

MaxLevelNodes == 3

MaxBatches == 5
\* most "error TS" matches in the tsc output
MaxTsErrors == 11
\* most ESLint messages of severity 2 / of another severity
MaxLintErrors == 21
MaxLintWarnings == 2
\* most matches of the dangerous patterns
MaxVulnerabilities == 11
\* most generated files read by the review, and the largest complexity of one
MaxFiles == 3
MaxFileComplexity == 21

VARIABLES
    issueNumbers,   \* main: issueNumbers (from --issue / --issues)
    tracker,        \* GitHub: issue number -> body
    concurrency,    \* --concurrency, parsed
    dryRun,         \* --dry-run
    pc,             \* position of main()
    issues,         \* main: issues (fetchIssues result so far)
    dag,            \* main: dag (buildDAG result)
    level,          \* executeDAG: level
    batches,        \* executeDAG: batches of the current level (dag indices)
    batchNo,        \* executeDAG: index of the batch being awaited
    stage,          \* per dag index: position of the node's pipeline
    trail,          \* per dag index: the stages entered, in order
    effects,        \* per dag index: external side effects performed
    review,         \* per dag index: ReviewResult of the node, or NoReview
    error,          \* per dag index: the error caught by executeIssue, or ""
    log,            \* execution-<day>.md: the appendFile calls, in order
    exitCode,       \* process exit code, -1 while running
    reviewResult,   \* SpecReview: the results of review() so far
    tree,           \* the git working tree and repository of the process
    gwr,            \* generateWithRetry: the call's locals, calls and outcome
    oai,            \* callOpenAIWithRetry: the call's locals, calls and outcome
    call            \* a call of one of the other functions: arguments, locals, result

vars == <<issueNumbers, tracker, concurrency, dryRun, pc, issues, dag, level,
          batches, batchNo, stage, trail, effects, review, error, log,
          exitCode,
          reviewResult, tree, gwr, oai, call>>

\* ------------------------------------------------------------ small helpers
Max(a, b) == IF a >= b THEN a ELSE b

Range(s) == {s[i] : i \in 1..Len(s)}

\* sequences over S of length lo..hi
SeqsOf(S, lo, hi) == UNION {[1..n -> S] : n \in lo..hi}

\* ------------------------------------------------------- issue body (text)
\* A body is the sequence of its reference clauses, in text order:
\*   kind "relates"  one match of /Relates to #(\d+)/i
\*   kind "depends"  one match of /depends:\s*#(\d+)/gi
\*   kind "other"    text that matches neither pattern
Token(k, n) == [kind |-> k, num |-> n]

Refs == 1..(NumIds + 1)

RefTokens == {Token(k, n) : k \in {"relates", "depends"}, n \in Refs}

\* text between the clauses, such as "depends on #3" without the colon
OtherToken == Token("other", 0)

\* [...new Set(deps)]: first occurrences, in order
RECURSIVE Dedup(_)
Dedup(s) ==
    IF s = <<>> THEN <<>>
    ELSE LET front == Dedup(SubSeq(s, 1, Len(s) - 1))
             last == s[Len(s)]
         IN IF last \in Range(front) THEN front ELSE Append(front, last)

IsRelates(t) == t.kind = "relates"

IsDepends(t) == t.kind = "depends"

\* a match with /g, as matchAll: every "Relates to #N"
EveryMatch(body) ==
    LET m == SelectSeq(body, IsRelates)
    IN [i \in 1..Len(m) |-> m[i].num]

\* String.match without /g: the first match only
FirstMatch(body) ==
    LET m == SelectSeq(body, IsRelates)
    IN IF m = <<>> THEN <<>> ELSE <<m[1].num>>

\* String.matchAll: every match
AllMatches(body) ==
    LET m == SelectSeq(body, IsDepends)
    IN [i \in 1..Len(m) |-> m[i].num]

parseDependencies(issueBody) == Dedup(FirstMatch(issueBody) \o AllMatches(issueBody))

\* --------------------------------------------------------------- buildDAG
\* `issue-${number}`
IssueId(n) == <<"issue", n>>

Issue(n, body) == [number |-> n, body |-> body]

\* nodes.push({...}); pos is the position of the task in the supplied list
NewNode(issue, pos) ==
    LET deps == parseDependencies(issue.body)
    IN [id |-> IssueId(issue.number),
        number |-> issue.number,
        dependencies |-> [i \in 1..Len(deps) |-> IssueId(deps[i])],
        level |-> 0,
        pos |-> pos]

\* new Map(nodes.map((n) => [n.id, n])).get(id): a later entry with the same
\* key replaces an earlier one; 0 stands for undefined
NodeMapGet(nodes, id) ==
    LET hits == {i \in 1..Len(nodes) : nodes[i].id = id}
    IN IF hits = {} THEN 0 ELSE CHOOSE i \in hits : \A j \in hits : j <= i

\* calculateLevel(nodeId) with the closure's state st = [visited, nodes];
\* the result carries the returned number and the state left behind
RECURSIVE calculateLevel(_, _)
RECURSIVE MapLevels(_, _, _)

\* a level that grows with the number of dependencies instead of their
\* maximum
RECURSIVE MapLevelsCounting(_, _, _)
MapLevelsCounting(deps, st, acc) ==
    IF deps = <<>> THEN [ret |-> acc, st |-> st]
    ELSE LET r == calculateLevel(deps[1], st)
         IN MapLevelsCounting(Tail(deps), r.st, acc + r.ret + 1)

\* node.dependencies.map((dep) => calculateLevel(dep)) then Math.max(...):
\* left to right, acc is the maximum so far
MapLevels(deps, st, acc) ==
    IF deps = <<>> THEN [ret |-> acc, st |-> st]
    ELSE LET r == calculateLevel(deps[1], st)
         IN MapLevels(Tail(deps), r.st, Max(acc, r.ret))

calculateLevel(nodeId, st) ==
    LET idx == NodeMapGet(st.nodes, nodeId)
    IN IF nodeId \in st.visited
       THEN [ret |-> IF idx = 0 THEN 0 ELSE st.nodes[idx].level, st |-> st]
       ELSE LET st1 == [st EXCEPT !.visited = @ \cup {nodeId}]
            IN IF idx = 0 THEN [ret |-> 0, st |-> st1]
               ELSE IF Len(st1.nodes[idx].dependencies) = 0
               THEN [ret |-> 0, st |-> [st1 EXCEPT !.nodes[idx].level = 0]]
               ELSE LET deps == st1.nodes[idx].dependencies
                        first == calculateLevel(deps[1], st1)
                        r == MapLevels(Tail(deps), first.st, first.ret)
                    IN [ret |-> r.ret + 1,
                        st |-> [r.st EXCEPT !.nodes[idx].level = r.ret + 1]]

\* for (const node of nodes) calculateLevel(node.id)
RECURSIVE LevelAll(_, _)
LevelAll(i, st) ==
    IF i > Len(st.nodes) THEN st
    ELSE LevelAll(i + 1, calculateLevel(st.nodes[i].id, st).st)

\* a sort that is not stable: a node goes in front of the nodes of its level
RECURSIVE InsertBeforeEqual(_, _)
InsertBeforeEqual(sorted, n) ==
    IF sorted = <<>> THEN <<n>>
    ELSE IF sorted[Len(sorted)].level - n.level < 0 THEN Append(sorted, n)
    ELSE Append(InsertBeforeEqual(SubSeq(sorted, 1, Len(sorted) - 1), n),
                sorted[Len(sorted)])

\* nodes.sort((a, b) => a.level - b.level): Array.prototype.sort is stable
RECURSIVE InsertByLevel(_, _)
InsertByLevel(sorted, n) ==
    IF sorted = <<>> THEN <<n>>
    ELSE IF sorted[Len(sorted)].level - n.level <= 0 THEN Append(sorted, n)
    ELSE Append(InsertByLevel(SubSeq(sorted, 1, Len(sorted) - 1), n),
                sorted[Len(sorted)])

RECURSIVE SortByLevel(_)
SortByLevel(nodes) ==
    IF nodes = <<>> THEN <<>>
    ELSE InsertByLevel(SortByLevel(SubSeq(nodes, 1, Len(nodes) - 1)),
                       nodes[Len(nodes)])

buildDAG(iss) ==
    LET nodes == [i \in 1..Len(iss) |-> NewNode(iss[i], i)]
        st == LevelAll(1, [visited |-> {}, nodes |-> nodes])
    IN SortByLevel(st.nodes)

\* ------------------------------------------------- JavaScript number (double)
\* The weighted sum of review() is computed in IEEE-754 binary64. A double
\* x with 0 <= x < 128 is the integer x * 2^56, held in three limbs
\* <<h, m, l>> of 20 bits each (value h * 2^40 + m * 2^20 + l).
Limb == 2^20

\* carry the limbs into range
Norm(h, m, l) ==
    LET m1 == m + (l \div Limb)
    IN <<h + (m1 \div Limb), m1 % Limb, l % Limb>>

\* the literal 0.3 = 5404319552844595 * 2^-54
Dbl03 == <<19660, 838860, 838860>>

\* the literal 0.1 = 7205759403792794 * 2^-56
Dbl01 == <<6553, 629145, 629146>>

\* number of bits a value has above the 53 a double keeps (the top limb
\* holds bits 41 and up, so 13 of its bits fit)
ExtraBits(x) ==
    IF x[1] < 2^13 THEN 0
    ELSE CHOOSE k \in 1..12 : x[1] >= 2^(12 + k) /\ x[1] < 2^(13 + k)

\* round to nearest, ties to even, at 53 significant bits
Fl53(x) ==
    LET k == ExtraBits(x)
        u == 2^k
        r == x[3] % u
        kept == x[3] - r
        odd == (x[3] \div u) % 2 = 1
    IN IF k = 0 THEN x
       ELSE IF 2 * r > u \/ (2 * r = u /\ odd) THEN Norm(x[1], x[2], kept + u)
       ELSE <<x[1], x[2], kept>>

\* n * c for an integer 0 <= n <= 100 held as a double
FlMul(n, c) == Fl53(Norm(n * c[1], n * c[2], n * c[3]))

\* a + b
FlAdd(a, b) == Fl53(Norm(a[1] + b[1], a[2] + b[2], a[3] + b[3]))

\* Math.round(x): floor(x + 0.5), exact
MathRound(x) == (x[1] + 2^15) \div 2^16

\* typeScriptScore * 0.3 + eslintScore * 0.3 + securityScore * 0.3
\*   + complexityScore * 0.1, left to right
WeightedSum(ts, es, sec, comp) ==
    FlAdd(FlAdd(FlAdd(FlMul(ts, Dbl03), FlMul(es, Dbl03)), FlMul(sec, Dbl03)),
          FlMul(comp, Dbl01))

\* ------------------------------------------------------------ ReviewAgent
threshold == 80

\* What the tools report to one review:
\*   tscFailed, tsMatches      execAsync("npx tsc --noEmit") rejected, and the
\*                             number of /error TS\d+:/ matches in its output
\*   lintThrows                execAsync("npx eslint ...") or JSON.parse threw
\*   lintErrors, lintWarnings  messages of severity 2 / of any other severity
\*   vulnerabilities           matches of the dangerous patterns
\*   fileCount, totalComplexity  files read, and the sum of their complexities
Observation(tf, tm, lt, le, lw, v, fc, tc) ==
    [tscFailed |-> tf, tsMatches |-> tm, lintThrows |-> lt, lintErrors |-> le,
     lintWarnings |-> lw, vulnerabilities |-> v, fileCount |-> fc,
     totalComplexity |-> tc]

checkTypeScript(tscFailed, tsMatches) ==
    IF ~tscFailed THEN [errors |-> 0, score |-> 100]
    ELSE LET errors == IF tsMatches > 0 THEN tsMatches ELSE 1
         IN [errors |-> errors, score |-> Max(0, 100 - errors * 10)]

checkESLint(lintThrows, lintErrors, lintWarnings) ==
    IF lintThrows THEN [errors |-> 0, warnings |-> 0, score |-> 100]
    ELSE IF lintErrors = 0 /\ lintWarnings = 0
    THEN [errors |-> 0, warnings |-> 0, score |-> 100]
    ELSE [errors |-> lintErrors, warnings |-> lintWarnings,
          score |-> Max(0, 100 - lintErrors * 5 - lintWarnings * 2)]

checkSecurity(vulnerabilities) ==
    IF vulnerabilities = 0 THEN [vulnerabilities |-> 0, score |-> 100]
    ELSE [vulnerabilities |-> vulnerabilities,
          score |-> Max(0, 100 - vulnerabilities * 10)]

\* avgComplexity = totalComplexity / fileCount (0 without files); above 10
\* the score is Math.round(Math.max(0, 100 - (avgComplexity - 10) * 10)),
\* here over the rationals: (200 * fileCount - 10 * totalComplexity) / fileCount
\* rounded half up (the double computation agrees for up to 8 files)
checkComplexity(fileCount, totalComplexity) ==
    IF fileCount = 0 \/ totalComplexity <= 10 * fileCount
    THEN [score |-> 100]
    ELSE LET num == Max(0, 200 * fileCount - 10 * totalComplexity)
         IN [score |-> (2 * num + fileCount) \div (2 * fileCount)]

\* a gate that is exclusive on the pass side: totalScore > threshold
ReviewResultStrict(tsResult, lintResult, secResult, compResult) ==
    LET totalScore == MathRound(WeightedSum(tsResult.score, lintResult.score,
                                            secResult.score, compResult.score))
    IN [score |-> totalScore,
        passed |-> totalScore > threshold,
        details |-> [typeScript |-> tsResult, eslint |-> lintResult,
                     security |-> secResult, complexity |-> compResult]]

\* the end of review(): totalScore, passed and the returned result
ReviewResult(tsResult, lintResult, secResult, compResult) ==
    LET totalScore == MathRound(WeightedSum(tsResult.score, lintResult.score,
                                            secResult.score, compResult.score))
    IN [score |-> totalScore,
        passed |-> totalScore >= threshold,
        details |-> [typeScript |-> tsResult, eslint |-> lintResult,
                     security |-> secResult, complexity |-> compResult]]

ReviewAgent_review(obs) ==
    ReviewResult(checkTypeScript(obs.tscFailed, obs.tsMatches),
                 checkESLint(obs.lintThrows, obs.lintErrors, obs.lintWarnings),
                 checkSecurity(obs.vulnerabilities),
                 checkComplexity(obs.fileCount, obs.totalComplexity))

NoReview == [score |-> -1]

\* the tsc outcomes: success, or failure with 0..MaxTsErrors matches
TscOutcomes == {<<FALSE, 0>>} \cup {<<TRUE, m>> : m \in 0..MaxTsErrors}

\* the eslint outcomes: a throw, or a parsed report
LintOutcomes ==
    {<<TRUE, 0, 0>>}
        \cup {<<FALSE, e, w>> : e \in 0..MaxLintErrors, w \in 0..MaxLintWarnings}

\* the files read and their summed complexity (each file has at least 1)
ComplexityOutcomes ==
    {c \in (0..MaxFiles) \X (0..(MaxFiles * MaxFileComplexity)) :
        c[1] <= c[2] /\ c[2] <= c[1] * MaxFileComplexity}

\* ------------------------------------------------------ git working tree
\* branch names: "main" and `feature/issue-${issue.number}`
MainBranch == <<"main">>

FeatureBranch(n) == <<"feature/issue", n>>

\* The one working tree of the process (cwd), with the files of an issue
\* (src/features/issue-<n>/...) named by the number n:
\*   head     the branch checked out
\*   index    the issues whose files are staged and not committed
\*   commits  per local branch, the issues whose files its commits hold
\*   remote   per branch of origin that was pushed, the same
InitialTree ==
    [head |-> MainBranch, index |-> {},
     commits |-> (MainBranch :> {}), remote |-> <<>>]

\* ------------------------------------------------------------- the CLI run
\* no call of the retry loops is in progress
NoCall == [pc |-> "none"]

\* the observations a node's review meets in the run: six compiler errors
\* and one file of complexity 12 (total 80) or 13 (total 79)
RunObservations ==
    {Observation(TRUE, 6, FALSE, 0, 0, 0, 1, tc) : tc \in {12, 13}}

\* bodies with up to MaxTokens clauses: references of either kind, other text
DagBodies == SeqsOf(RefTokens \cup {OtherToken}, 0, MaxTokens)

\* the issue lists fetchIssues can return: the supplied numbers, each with
\* the body the tracker holds for it
IssueLists ==
    {[p \in 1..Len(ns) |-> Issue(ns[p], t[ns[p]])] :
        ns \in SeqsOf(1..NumIds, 0, MaxIssues), t \in [1..NumIds -> DagBodies]}

\* buildDAG on each of them
DAGs == [iss \in IssueLists |-> buildDAG(iss)]

\* bodies of the issues of the run: at most one "depends: #N" clause
RunBodies == {<<>>} \cup {<<Token("depends", n)>> : n \in Refs}

Init ==
    /\ issueNumbers \in SeqsOf(1..NumIds, 0, MaxIssues)
    /\ tracker \in [1..NumIds -> RunBodies]
    /\ \A n \in 1..NumIds : n \notin Range(issueNumbers) => tracker[n] = <<>>
    /\ concurrency \in 1..MaxConcurrency
    /\ dryRun \in BOOLEAN
    /\ pc = "main"
    /\ issues = <<>>
    /\ dag = <<>>
    /\ level = 0
    /\ batches = <<>>
    /\ batchNo = 0
    /\ stage = <<>>
    /\ trail = <<>>
    /\ effects = <<>>
    /\ review = <<>>
    /\ error = <<>>
    /\ log = <<>>
    /\ exitCode = -1
    /\ reviewResult = NoReview
    /\ tree = InitialTree
    /\ gwr = NoCall
    /\ oai = NoCall
    /\ call = NoCall

inputs == <<issueNumbers, tracker, concurrency, dryRun>>

reviewVars == <<reviewResult>>

gitVars == <<tree>>

retryVars == <<gwr, oai>>

callVars == <<call>>

nodeVars == <<stage, trail, effects, review, error, log>>

schedVars == <<level, batches, batchNo>>

\* process.exit(code), also the end of main()
Exit(code) == pc' = "exited" /\ exitCode' = code

\* main() up to its first await: loadConfig() throws without GITHUB_TOKEN or
\* REPOSITORY (main().catch exits 1); without --issue/--issues exit(1)
LoadConfig ==
    /\ pc = "main"
    /\ \E githubToken \in BOOLEAN, repository \in BOOLEAN :
          IF githubToken /\ repository /\ issueNumbers # <<>>
          THEN pc' = "fetchIssues" /\ exitCode' = exitCode
          ELSE Exit(1)
    /\ UNCHANGED <<inputs, issues, dag, schedVars, nodeVars, reviewVars, gitVars, retryVars, callVars>>

\* a fetchIssues that skips an issue it cannot fetch
FetchIssuesSkipFailed ==
    /\ pc = "fetchIssues"
    /\ \E ok \in BOOLEAN :
          LET num == issueNumbers[Len(issues) + 1]
          IN IF ok
             THEN /\ issues' = Append(issues, Issue(num, tracker[num]))
                  /\ pc' = IF Len(issues') = Len(issueNumbers)
                           THEN "buildDAG" ELSE "fetchIssues"
             ELSE /\ issues' = issues
                  /\ pc' = "buildDAG"
    /\ exitCode' = exitCode
    /\ UNCHANGED <<inputs, dag, schedVars, nodeVars, reviewVars, gitVars, retryVars, callVars>>

\* fetchIssues: one await fetchIssue per number, in order; a rejection
\* leaves main() through main().catch
FetchIssues ==
    /\ pc = "fetchIssues"
    /\ \E ok \in BOOLEAN :
          IF ok
          THEN LET num == issueNumbers[Len(issues) + 1]
               IN /\ issues' = Append(issues, Issue(num, tracker[num]))
                  /\ pc' = IF Len(issues') = Len(issueNumbers)
                           THEN "buildDAG" ELSE "fetchIssues"
                  /\ exitCode' = exitCode
          ELSE Exit(1) /\ issues' = issues
    /\ UNCHANGED <<inputs, dag, schedVars, nodeVars, reviewVars, gitVars, retryVars, callVars>>

\* const dag = buildDAG(issues)
BuildDAGStep ==
    /\ pc = "buildDAG"
    /\ dag' = DAGs[issues]
    /\ pc' = "executeDAG"
    /\ stage' = [i \in 1..Len(issues) |-> "idle"]
    /\ trail' = [i \in 1..Len(issues) |-> <<>>]
    /\ effects' = [i \in 1..Len(issues) |-> {}]
    /\ review' = [i \in 1..Len(issues) |-> NoReview]
    /\ error' = [i \in 1..Len(issues) |-> ""]
    /\ UNCHANGED <<inputs, issues, schedVars, log, exitCode, reviewVars, gitVars, retryVars, callVars>>

\* ------------------------------------------------------------- executeDAG
\* levels.get(l) || []: the dag indices of the nodes of level l, in dag order
LevelNodes(d, l) ==
    LET IsLevel(i) == d[i].level = l
    IN SelectSeq([i \in 1..Len(d) |-> i], IsLevel)

\* Math.max(...levels.keys())
MaxLevel(d) == CHOOSE l \in {d[i].level : i \in 1..Len(d)} :
                   \A i \in 1..Len(d) : d[i].level <= l

\* a level that is not cut into batches: one Promise.all over all its nodes
MakeOneBatch(levelNodes, k, i) ==
    IF levelNodes = <<>> THEN <<>> ELSE <<levelNodes>>

\* for (let i = 0; i < levelNodes.length; i += concurrency)
\*   batches.push(levelNodes.slice(i, i + concurrency))
RECURSIVE MakeBatches(_, _, _)
MakeBatches(levelNodes, k, i) ==
    IF i < Len(levelNodes)
    THEN <<SubSeq(levelNodes, i + 1, IF i + k < Len(levelNodes)
                                     THEN i + k ELSE Len(levelNodes))>>
             \o MakeBatches(levelNodes, k, i + k)
    ELSE <<>>

\* executeDAG up to the level loop: level = 0 and its batches
ExecuteDAG ==
    /\ pc = "executeDAG"
    /\ level' = 0
    /\ batches' = MakeBatches(LevelNodes(dag, 0), concurrency, 0)
    /\ batchNo' = 0
    /\ pc' = "schedule"
    /\ UNCHANGED <<inputs, issues, dag, nodeVars, exitCode, reviewVars, gitVars, retryVars, callVars>>

\* Promise.all(batch.map(async (node) => ...)): every callback of the batch
\* runs to its first await, the fetchIssue of its node
StartBatch ==
    /\ pc = "schedule"
    /\ batchNo < Len(batches)
    /\ batchNo' = batchNo + 1
    /\ stage' = [i \in DOMAIN stage |->
                    IF i \in Range(batches[batchNo + 1]) THEN "fetch"
                    ELSE stage[i]]
    /\ pc' = "await"
    /\ UNCHANGED <<inputs, issues, dag, level, batches, trail, effects, review,
                   error, log, exitCode, reviewVars, gitVars, retryVars, callVars>>

\* level++ once the batches of the level are done (an empty level: continue)
NextLevel ==
    /\ pc = "schedule"
    /\ batchNo = Len(batches)
    /\ level < MaxLevel(dag)
    /\ level' = level + 1
    /\ batches' = MakeBatches(LevelNodes(dag, level + 1), concurrency, 0)
    /\ batchNo' = 0
    /\ UNCHANGED <<inputs, pc, issues, dag, nodeVars, exitCode, reviewVars, gitVars, retryVars, callVars>>

\* a level loop that stops one level short (level < maxLevel)
FinishEarly ==
    /\ pc = "schedule"
    /\ batchNo = Len(batches)
    /\ level >= MaxLevel(dag) - 1
    /\ Exit(0)
    /\ UNCHANGED <<inputs, issues, dag, schedVars, nodeVars, reviewVars,
                   gitVars, retryVars, callVars>>

\* the loop ends, executeDAG and main() return: the process ends with code 0
Finish ==
    /\ pc = "schedule"
    /\ batchNo = Len(batches)
    /\ level >= MaxLevel(dag)
    /\ Exit(0)
    /\ UNCHANGED <<inputs, issues, dag, schedVars, nodeVars, reviewVars, gitVars, retryVars, callVars>>

\* a batch that resolves with its first fulfilled promise (Promise.any)
BatchDoneAny ==
    /\ pc = "await"
    /\ \E i \in Range(batches[batchNo]) : stage[i] = "done"
    /\ pc' = "schedule"
    /\ UNCHANGED <<inputs, issues, dag, schedVars, nodeVars, exitCode,
                   reviewVars, gitVars, retryVars, callVars>>

\* Promise.all resolves: every promise of the batch is fulfilled
BatchDone ==
    /\ pc = "await"
    /\ \A i \in Range(batches[batchNo]) : stage[i] = "done"
    /\ pc' = "schedule"
    /\ UNCHANGED <<inputs, issues, dag, schedVars, nodeVars, exitCode,
                   reviewVars, gitVars, retryVars, callVars>>

\* ----------------------------------------------------------- executeIssue
InFlight == {"fetch", "classify", "generate", "review", "publish", "log", "catch"}

Settled == {"done", "failed"}

\* a callback that swallows the error of its pipeline and resolves
RejectSwallowed(i) ==
    /\ stage' = [stage EXCEPT ![i] = "done"]
    /\ UNCHANGED <<pc, exitCode>>

\* the callback's promise rejects: Promise.all rejects at once, executeDAG
\* and main() throw, and main().catch calls process.exit(1) in the same turn
Reject(i) ==
    /\ stage' = [stage EXCEPT ![i] = "failed"]
    /\ Exit(1)

\* control enters the catch block of executeIssue with error e
Catch(i, e) ==
    /\ stage' = [stage EXCEPT ![i] = "catch"]
    /\ error' = [error EXCEPT ![i] = e]
    /\ UNCHANGED <<pc, exitCode>>

\* control enters the next step of the try block
Enter(i, s) ==
    /\ stage' = [stage EXCEPT ![i] = s]
    /\ trail' = [trail EXCEPT ![i] = Append(@, s)]
    /\ UNCHANGED <<pc, exitCode, error>>

\* await fetchIssue(octokit, owner, repo, node.number) in the batch callback;
\* on success executeIssue starts with Step 1
FetchIssue == \E i \in DOMAIN stage :
    /\ pc = "await"
    /\ stage[i] = "fetch"
    /\ \E ok \in BOOLEAN :
          IF ok THEN Enter(i, "classify")
          ELSE Reject(i) /\ UNCHANGED <<trail, error>>
    /\ UNCHANGED <<inputs, issues, dag, schedVars, effects, review, log,
                   reviewVars, gitVars, retryVars, callVars>>

\* a Step 1 that applies the labels with --dry-run as well
ClassifyAlwaysLabels == \E i \in DOMAIN stage :
    /\ pc = "await"
    /\ stage[i] = "classify"
    /\ \E ok \in BOOLEAN :
          IF ok
          THEN /\ Enter(i, "generate")
               /\ effects' = [effects EXCEPT ![i] = @ \cup {"issueLabels"}]
          ELSE Catch(i, "addLabels") /\ UNCHANGED <<trail, effects>>
    /\ UNCHANGED <<inputs, issues, dag, schedVars, review, log, reviewVars,
                   gitVars, retryVars, callVars>>

\* Step 1: analyzeIssue, and unless --dry-run await issueAgent.addLabels,
\* which rethrows a failure
Classify == \E i \in DOMAIN stage :
    /\ pc = "await"
    /\ stage[i] = "classify"
    /\ \E ok \in BOOLEAN :
          IF dryRun \/ ok
          THEN /\ Enter(i, "generate")
               /\ effects' = [effects EXCEPT ![i] =
                                 IF dryRun THEN @ ELSE @ \cup {"issueLabels"}]
          ELSE Catch(i, "addLabels") /\ UNCHANGED <<trail, effects>>
    /\ UNCHANGED <<inputs, issues, dag, schedVars, review, log, reviewVars, gitVars, retryVars, callVars>>

\* CodeGenAgent, constructed as new CodeGenAgent(config.anthropicApiKey):
\* useTaskTool defaults to true, so generateCode is generateWithTaskTool,
\* which writes the task request file and returns success: true or throws
generateCode ==
    {[success |-> TRUE, threw |-> FALSE, wrote |-> {"taskRequest"}],
     [success |-> FALSE, threw |-> TRUE, wrote |-> {}]}

\* Step 2: await codeGen.generateCode, throw unless success, and unless
\* --dry-run await codeGen.writeFiles
Generate == \E i \in DOMAIN stage :
    /\ pc = "await"
    /\ stage[i] = "generate"
    /\ \E codeResult \in generateCode, written \in BOOLEAN :
          IF codeResult.threw \/ ~codeResult.success
          THEN /\ Catch(i, "generateCode")
               /\ effects' = [effects EXCEPT ![i] = @ \cup codeResult.wrote]
               /\ trail' = trail
          ELSE IF dryRun \/ written
          THEN /\ Enter(i, "review")
               /\ effects' = [effects EXCEPT ![i] =
                                 @ \cup codeResult.wrote
                                   \cup (IF dryRun THEN {} ELSE {"files"})]
          ELSE /\ Catch(i, "writeFiles")
               /\ effects' = [effects EXCEPT ![i] = @ \cup codeResult.wrote]
               /\ trail' = trail
    /\ UNCHANGED <<inputs, issues, dag, schedVars, review, log, reviewVars, gitVars, retryVars, callVars>>

\* reviewer.review on each observation of the run
RunReviews == [obs \in RunObservations |-> ReviewAgent_review(obs)]

\* Step 3 without the throw: the result is kept and Step 4 follows
ReviewNoGate == \E i \in DOMAIN stage :
    /\ pc = "await"
    /\ stage[i] = "review"
    /\ \E obs \in RunObservations :
          /\ review' = [review EXCEPT ![i] = RunReviews[obs]]
          /\ Enter(i, "publish")
    /\ UNCHANGED <<inputs, issues, dag, schedVars, effects, log, reviewVars, gitVars, retryVars, callVars>>

\* Step 3: await reviewer.review; throw unless reviewResult.passed
Review == \E i \in DOMAIN stage :
    /\ pc = "await"
    /\ stage[i] = "review"
    /\ \E obs \in RunObservations :
          LET result == RunReviews[obs]
          IN /\ review' = [review EXCEPT ![i] = result]
             /\ IF ~result.passed
                THEN Catch(i, "Code review failed") /\ trail' = trail
                ELSE Enter(i, "publish")
    /\ UNCHANGED <<inputs, issues, dag, schedVars, effects, log, reviewVars, gitVars, retryVars, callVars>>

\* PRAgent.createPR: createBranch, stageFiles, commit, push, pulls.create in
\* order; the first failure is caught and returned as success: false.
\* failAt names the failing operation, "" when none fails.
createPR(failAt) ==
    [success |-> failAt = "",
     did |-> CASE failAt = "createBranch" -> {}
               [] failAt = "stageFiles" -> {"branch"}
               [] failAt = "commit" -> {"branch"}
               [] failAt = "push" -> {"branch", "commit"}
               [] failAt = "pulls.create" -> {"branch", "commit", "push"}
               [] OTHER -> {"branch", "commit", "push", "pr"}]

\* PRAgent.addLabels: a failure is logged and not rethrown
PRAgent_addLabels(ok) == IF ok THEN {"prLabels"} ELSE {}

\* Step 4: unless --dry-run await prAgent.createPR, throw unless success,
\* then await prAgent.addLabels
Publish == \E i \in DOMAIN stage :
    /\ pc = "await"
    /\ stage[i] = "publish"
    /\ IF dryRun
       THEN /\ stage' = [stage EXCEPT ![i] = "log"]
            /\ UNCHANGED <<effects, error, pc, exitCode>>
       ELSE \E failAt \in {"", "createBranch", "stageFiles", "commit", "push",
                           "pulls.create"}, labelsOk \in BOOLEAN :
               LET prResult == createPR(failAt)
               IN IF ~prResult.success
                  THEN /\ Catch(i, "PR creation failed")
                       /\ effects' = [effects EXCEPT ![i] = @ \cup prResult.did]
                  ELSE /\ stage' = [stage EXCEPT ![i] = "log"]
                       /\ effects' = [effects EXCEPT ![i] =
                             @ \cup prResult.did \cup PRAgent_addLabels(labelsOk)]
                       /\ UNCHANGED <<error, pc, exitCode>>
    /\ UNCHANGED <<inputs, issues, dag, schedVars, trail, review, log,
                   reviewVars, gitVars, retryVars, callVars>>

\* one fs.appendFile(logFile, ...) of node i; written tells whether the call
\* succeeded, and only then is the record in the file
LogRecord(i, status, detail, written) ==
    [node |-> i, number |-> dag[i].number, status |-> status, detail |-> detail,
     written |-> written]

\* the end of the try block: await fs.mkdir, await fs.appendFile of the
\* success record; a failure of either is caught by the same catch block
LogSuccess == \E i \in DOMAIN stage :
    /\ pc = "await"
    /\ stage[i] = "log"
    /\ \E ok \in BOOLEAN :
          /\ log' = Append(log, LogRecord(i, "Success", review[i].score, ok))
          /\ IF ok
             THEN /\ stage' = [stage EXCEPT ![i] = "done"]
                  /\ UNCHANGED <<error, pc, exitCode>>
             ELSE Catch(i, "appendFile")
    /\ UNCHANGED <<inputs, issues, dag, schedVars, trail, effects, review,
                   reviewVars, gitVars, retryVars, callVars>>

\* a catch block that rethrows without writing the failure record
LogFailureSilent == \E i \in DOMAIN stage :
    /\ pc = "await"
    /\ stage[i] = "catch"
    /\ Reject(i)
    /\ UNCHANGED <<inputs, issues, dag, schedVars, trail, effects, review,
                   error, log, reviewVars, gitVars, retryVars, callVars>>

\* the catch block: await fs.mkdir, await fs.appendFile of the failure
\* record, throw error (a failing write throws its own error instead)
LogFailure == \E i \in DOMAIN stage :
    /\ pc = "await"
    /\ stage[i] = "catch"
    /\ \E ok \in BOOLEAN :
          log' = Append(log, LogRecord(i, "Failed", error[i], ok))
    /\ Reject(i)
    /\ UNCHANGED <<inputs, issues, dag, schedVars, trail, effects, review,
                   error, reviewVars, gitVars, retryVars, callVars>>

Next ==
    \/ LoadConfig
    \/ FetchIssues
    \/ BuildDAGStep
    \/ ExecuteDAG
    \/ StartBatch
    \/ NextLevel
    \/ Finish
    \/ BatchDone
    \/ FetchIssue
    \/ Classify
    \/ Generate
    \/ Review
    \/ Publish
    \/ LogSuccess
    \/ LogFailure

Spec == Init /\ [][Next]_vars

\* the run on Node's event loop: a pending continuation whose operation has
\* completed is eventually run
SpecFair == Spec /\ WF_vars(Next)

\* ------------------------------------------------------- buildDAG alone
\* main() has fetched the issues of a non-empty list
InitDAG ==
    /\ issueNumbers \in SeqsOf(1..NumIds, 1, MaxIssues)
    /\ tracker \in [1..NumIds -> DagBodies]
    /\ \A n \in 1..NumIds : n \notin Range(issueNumbers) => tracker[n] = <<>>
    /\ concurrency = 1
    /\ dryRun = FALSE
    /\ pc = "buildDAG"
    /\ issues = [i \in 1..Len(issueNumbers) |->
                    Issue(issueNumbers[i], tracker[issueNumbers[i]])]
    /\ dag = <<>>
    /\ level = 0
    /\ batches = <<>>
    /\ batchNo = 0
    /\ stage = <<>>
    /\ trail = <<>>
    /\ effects = <<>>
    /\ review = <<>>
    /\ error = <<>>
    /\ log = <<>>
    /\ exitCode = -1
    /\ reviewResult = NoReview
    /\ tree = InitialTree
    /\ gwr = NoCall
    /\ oai = NoCall
    /\ call = NoCall

NextDAG == BuildDAGStep

SpecDAG == InitDAG /\ [][NextDAG]_vars

\* ------------------------------------------------- ReviewAgent.review alone
InitReview ==
    /\ issueNumbers = <<>>
    /\ tracker = [n \in 1..NumIds |-> <<>>]
    /\ concurrency = 1
    /\ dryRun = FALSE
    /\ pc = "review"
    /\ issues = <<>>
    /\ dag = <<>>
    /\ level = 0
    /\ batches = <<>>
    /\ batchNo = 0
    /\ stage = <<>>
    /\ trail = <<>>
    /\ effects = <<>>
    /\ review = <<>>
    /\ error = <<>>
    /\ log = <<>>
    /\ exitCode = -1
    /\ reviewResult = NoReview
    /\ tree = InitialTree
    /\ gwr = NoCall
    /\ oai = NoCall
    /\ call = NoCall

\* review() awaits its four checks in turn; each step takes one outcome of
\* the tool the check runs and keeps the check's result
CheckTypeScript ==
    /\ pc = "review"
    /\ \E t \in TscOutcomes :
          reviewResult' = [typeScript |-> checkTypeScript(t[1], t[2])]
    /\ pc' = "checkESLint"
    /\ UNCHANGED <<inputs, issues, dag, schedVars, nodeVars, exitCode,
                   gitVars, retryVars, callVars>>

CheckESLint ==
    /\ pc = "checkESLint"
    /\ \E l \in LintOutcomes :
          reviewResult' = [typeScript |-> reviewResult.typeScript,
                           eslint |-> checkESLint(l[1], l[2], l[3])]
    /\ pc' = "checkSecurity"
    /\ UNCHANGED <<inputs, issues, dag, schedVars, nodeVars, exitCode,
                   gitVars, retryVars, callVars>>

CheckSecurity ==
    /\ pc = "checkSecurity"
    /\ \E v \in 0..MaxVulnerabilities :
          reviewResult' = [typeScript |-> reviewResult.typeScript,
                           eslint |-> reviewResult.eslint,
                           security |-> checkSecurity(v)]
    /\ pc' = "checkComplexity"
    /\ UNCHANGED <<inputs, issues, dag, schedVars, nodeVars, exitCode,
                   gitVars, retryVars, callVars>>

\* the last check, then the total and the returned result
CheckComplexity ==
    /\ pc = "checkComplexity"
    /\ \E c \in ComplexityOutcomes :
          reviewResult' = ReviewResult(reviewResult.typeScript,
                                       reviewResult.eslint,
                                       reviewResult.security,
                                       checkComplexity(c[1], c[2]))
    /\ pc' = "reviewed"
    /\ UNCHANGED <<inputs, issues, dag, schedVars, nodeVars, exitCode,
                   gitVars, retryVars, callVars>>

NextReview == CheckTypeScript \/ CheckESLint \/ CheckSecurity \/ CheckComplexity

SpecReview == InitReview /\ [][NextReview]_vars

\* the four stages of executeIssue, in order
Pipeline == <<"classify", "generate", "review", "publish">>

\* ------------------------------------------- Step 4 of the nodes of a batch
\* The nodes of one batch have passed their reviews and are at
\* prAgent.createPR (no --dry-run); every await of createPR is one step, so
\* the git commands of the nodes interleave in the one working tree.
InitPublish ==
    /\ issueNumbers \in SeqsOf(1..NumIds, 1, MaxConcurrency)
    /\ tracker = [n \in 1..NumIds |-> <<>>]
    /\ concurrency = Len(issueNumbers)
    /\ dryRun = FALSE
    /\ pc = "await"
    /\ issues = [i \in 1..Len(issueNumbers) |-> Issue(issueNumbers[i], <<>>)]
    /\ dag = buildDAG(issues)
    /\ level = 0
    /\ batches = <<[i \in 1..Len(issueNumbers) |-> i]>>
    /\ batchNo = 1
    /\ stage = [i \in 1..Len(issueNumbers) |-> "createBranch"]
    /\ trail = [i \in 1..Len(issueNumbers) |-> Pipeline]
    /\ effects = [i \in 1..Len(issueNumbers) |->
                     {"issueLabels", "taskRequest", "files"}]
    /\ review = [i \in 1..Len(issueNumbers) |-> NoReview]
    /\ error = [i \in 1..Len(issueNumbers) |-> ""]
    /\ log = <<>>
    /\ exitCode = -1
    /\ reviewResult = NoReview
    /\ tree = InitialTree
    /\ gwr = NoCall
    /\ oai = NoCall
    /\ call = NoCall

\* node i moves to position s of createPR, having done what
Advance(i, s, what) ==
    /\ stage' = [stage EXCEPT ![i] = s]
    /\ effects' = [effects EXCEPT ![i] = @ \cup what]

\* createPR catches the error of a step and returns success: false
PRFailed(i) ==
    /\ stage' = [stage EXCEPT ![i] = "prFailed"]
    /\ UNCHANGED <<effects, tree>>

publishFrame == <<inputs, pc, issues, dag, schedVars, trail, review, error,
                  log, exitCode, reviewVars, retryVars, callVars>>

\* createBranch: git checkout <branch> of an existing branch, else
\* git checkout -b <branch>, which starts the branch at HEAD; the index is
\* carried along
CreateBranch == \E i \in DOMAIN stage :
    /\ stage[i] = "createBranch"
    /\ LET branchName == FeatureBranch(dag[i].number)
       IN \E ok \in BOOLEAN :
             IF ok
             THEN /\ tree' = [tree EXCEPT
                        !.head = branchName,
                        !.commits = IF branchName \in DOMAIN @ THEN @
                                    ELSE (branchName :> @[tree.head]) @@ @]
                  /\ Advance(i, "stageFiles", {"branch"})
             ELSE PRFailed(i)
    /\ UNCHANGED publishFrame

\* stageFiles: git add <files of the issue>; files that HEAD already holds
\* unchanged add nothing
StageFiles == \E i \in DOMAIN stage :
    /\ stage[i] = "stageFiles"
    /\ \E ok \in BOOLEAN :
          IF ok
          THEN /\ tree' = [tree EXCEPT
                     !.index = @ \cup ({dag[i].number} \ tree.commits[tree.head])]
               /\ Advance(i, "commit", {})
          ELSE PRFailed(i)
    /\ UNCHANGED publishFrame

\* commit: git commit -m ... commits the index on the branch checked out;
\* "nothing to commit" is not an error
Commit == \E i \in DOMAIN stage :
    /\ stage[i] = "commit"
    /\ \E ok \in BOOLEAN :
          IF ok
          THEN /\ tree' = [tree EXCEPT
                     !.commits[tree.head] = @ \cup tree.index,
                     !.index = {}]
               /\ Advance(i, "push", IF tree.index = {} THEN {} ELSE {"commit"})
          ELSE PRFailed(i)
    /\ UNCHANGED publishFrame

\* push: git push origin <branch> sends the local branch of that name
Push == \E i \in DOMAIN stage :
    /\ stage[i] = "push"
    /\ LET branchName == FeatureBranch(dag[i].number)
       IN \E ok \in BOOLEAN :
             IF ok
             THEN /\ tree' = [tree EXCEPT
                        !.remote = (branchName :> tree.commits[branchName]) @@ @]
                  /\ Advance(i, "pulls.create", {"push"})
             ELSE PRFailed(i)
    /\ UNCHANGED publishFrame

\* octokit.pulls.create with head: branchName; createPR returns success: true
PullsCreate == \E i \in DOMAIN stage :
    /\ stage[i] = "pulls.create"
    /\ \E ok \in BOOLEAN :
          IF ok THEN Advance(i, "created", {"pr"}) /\ tree' = tree
          ELSE PRFailed(i)
    /\ UNCHANGED publishFrame

NextPublish == CreateBranch \/ StageFiles \/ Commit \/ Push \/ PullsCreate

SpecPublish == InitPublish /\ [][NextPublish]_vars

\* ------------------------------------- generateWithRetry (features/issue-23)
\* JavaScript values of the question type T: undefined and strings
Undefined == <<"undefined">>

Str(text) == <<"string", text>>

\* !v: undefined and the empty string are falsy, other strings are not
Falsy(v) == v = Undefined \/ v = Str("")

\* the fallbackQuestion argument: omitted, the empty string, a question
Fallbacks == {Undefined, Str(""), Str("fallback question")}

\* the value the k-th call of generateFn resolves to
Candidate(k) == <<"question", k>>

NoResult == [question |-> Undefined, retries |-> -1, usedFallback |-> FALSE]

NoError == <<>>

Error(message) == <<"Error", message>>

\* the process is idle but for a call of one of the retry loops
IdleRun ==
    /\ issueNumbers = <<>>
    /\ tracker = [n \in 1..NumIds |-> <<>>]
    /\ concurrency = 1
    /\ dryRun = FALSE
    /\ pc = "retry"
    /\ issues = <<>>
    /\ dag = <<>>
    /\ level = 0
    /\ batches = <<>>
    /\ batchNo = 0
    /\ stage = <<>>
    /\ trail = <<>>
    /\ effects = <<>>
    /\ review = <<>>
    /\ error = <<>>
    /\ log = <<>>
    /\ exitCode = -1
    /\ reviewResult = NoReview
    /\ tree = InitialTree

\* generateWithRetry(generateFn, checkFn, maxRetries, fallbackQuestion) is
\* called: i = 0
InitGenerateWithRetry ==
    /\ IdleRun
    /\ oai = NoCall
    /\ call = NoCall
    /\ \E maxRetries \in 0..MaxRetriesBound, fallbackQuestion \in Fallbacks :
          gwr = [pc |-> "loop", i |-> 0, maxRetries |-> maxRetries,
                 fallbackQuestion |-> fallbackQuestion, question |-> Undefined,
                 calls |-> <<>>, checks |-> <<>>, result |-> NoResult,
                 error |-> NoError]

retryFrame == <<inputs, pc, issues, dag, schedVars, nodeVars, exitCode,
                reviewVars, gitVars, callVars>>

\* i < maxRetries: const question = await generateFn(); a rejection leaves
\* generateWithRetry
GenerateFn ==
    /\ gwr.pc = "loop"
    /\ gwr.i < gwr.maxRetries
    /\ \E ok \in BOOLEAN :
          IF ok
          THEN gwr' = [gwr EXCEPT !.pc = "check",
                                  !.question = Candidate(gwr.i + 1),
                                  !.calls = Append(@, "generateFn")]
          ELSE gwr' = [gwr EXCEPT !.pc = "rejected",
                                  !.calls = Append(@, "generateFn"),
                                  !.error = Error("generateFn")]
    /\ UNCHANGED <<retryFrame, oai>>

\* const result = await checkFn(question); return unless result.isDuplicate,
\* else i++
CheckFn ==
    /\ gwr.pc = "check"
    /\ \E ok \in BOOLEAN, isDuplicate \in BOOLEAN :
          IF ~ok
          THEN gwr' = [gwr EXCEPT !.pc = "rejected",
                                  !.calls = Append(@, "checkFn"),
                                  !.error = Error("checkFn")]
          ELSE IF ~isDuplicate
          THEN gwr' = [gwr EXCEPT !.pc = "returned",
                                  !.calls = Append(@, "checkFn"),
                                  !.checks = Append(@, isDuplicate),
                                  !.result = [question |-> gwr.question,
                                              retries |-> gwr.i,
                                              usedFallback |-> FALSE]]
          ELSE gwr' = [gwr EXCEPT !.pc = "loop",
                                  !.i = @ + 1,
                                  !.calls = Append(@, "checkFn"),
                                  !.checks = Append(@, isDuplicate)]
    /\ UNCHANGED <<retryFrame, oai>>

\* after the loop: if (!fallbackQuestion) throw new Error(...); else return
\* the fallback
UseFallback ==
    /\ gwr.pc = "loop"
    /\ ~(gwr.i < gwr.maxRetries)
    /\ IF Falsy(gwr.fallbackQuestion)
       THEN gwr' = [gwr EXCEPT !.pc = "rejected",
                       !.error = Error("Max retries exceeded and no fallback question provided")]
       ELSE gwr' = [gwr EXCEPT !.pc = "returned",
                       !.result = [question |-> gwr.fallbackQuestion,
                                   retries |-> gwr.maxRetries,
                                   usedFallback |-> TRUE]]
    /\ UNCHANGED <<retryFrame, oai>>

NextGenerateWithRetry == GenerateFn \/ CheckFn \/ UseFallback

SpecGenerateWithRetry == InitGenerateWithRetry /\ [][NextGenerateWithRetry]_vars

\* ----------------------------------- callOpenAIWithRetry (features/issue-34)
\* the value the k-th call of fn resolves to
Value(k) == <<"value", k>>

\* callOpenAIWithRetry(fn, maxRetries) is called: i = 0
InitCallOpenAI ==
    /\ IdleRun
    /\ gwr = NoCall
    /\ call = NoCall
    /\ \E maxRetries \in 0..MaxRetriesBound :
          oai = [pc |-> "loop", i |-> 0, maxRetries |-> maxRetries,
                 invoked |-> 0, failures |-> <<>>, result |-> Undefined,
                 error |-> NoError, abandoned |-> 0]

\* i < maxRetries: fn() is called and raced against the 30 s timer
InvokeFn ==
    /\ oai.pc = "loop"
    /\ oai.i < oai.maxRetries
    /\ oai' = [oai EXCEPT !.pc = "race", !.invoked = @ + 1]
    /\ UNCHANGED <<retryFrame, gwr>>

\* a catch block that rethrows the error of the first attempt (i === 0)
SettleNoRetry ==
    /\ oai.pc = "race"
    /\ \E outcome \in {"fulfilled", "rejected", "timeout"} :
          IF outcome = "fulfilled"
          THEN oai' = [oai EXCEPT !.pc = "returned",
                                  !.result = Value(oai.invoked)]
          ELSE LET e == IF outcome = "timeout" THEN Error("Timeout")
                        ELSE <<"Error", "Fail", oai.invoked>>
                   left == IF outcome = "timeout" THEN 1 ELSE 0
               IN IF oai.i = 0
                  THEN oai' = [oai EXCEPT !.pc = "rejected",
                                          !.failures = Append(@, e),
                                          !.error = e,
                                          !.abandoned = @ + left]
                  ELSE oai' = [oai EXCEPT !.pc = "loop", !.i = @ + 1,
                                          !.failures = Append(@, e),
                                          !.abandoned = @ + left]
    /\ UNCHANGED <<retryFrame, gwr>>

\* the race settles: return the value of fn; or catch its rejection or the
\* timer's Error("Timeout"), and throw it if i === maxRetries - 1, else i++.
\* When the timer wins, the promise of fn() is left pending (abandoned): the
\* race neither cancels nor awaits it.
Settle ==
    /\ oai.pc = "race"
    /\ \E outcome \in {"fulfilled", "rejected", "timeout"} :
          IF outcome = "fulfilled"
          THEN oai' = [oai EXCEPT !.pc = "returned",
                                  !.result = Value(oai.invoked)]
          ELSE LET e == IF outcome = "timeout" THEN Error("Timeout")
                        ELSE <<"Error", "Fail", oai.invoked>>
                   left == IF outcome = "timeout" THEN 1 ELSE 0
               IN IF oai.i = oai.maxRetries - 1
                  THEN oai' = [oai EXCEPT !.pc = "rejected",
                                          !.failures = Append(@, e),
                                          !.error = e,
                                          !.abandoned = @ + left]
                  ELSE oai' = [oai EXCEPT !.pc = "loop", !.i = @ + 1,
                                          !.failures = Append(@, e),
                                          !.abandoned = @ + left]
    /\ UNCHANGED <<retryFrame, gwr>>

\* after the loop: throw new Error("Max retries exceeded")
MaxRetriesExceeded ==
    /\ oai.pc = "loop"
    /\ ~(oai.i < oai.maxRetries)
    /\ oai' = [oai EXCEPT !.pc = "rejected",
                          !.error = Error("Max retries exceeded")]
    /\ UNCHANGED <<retryFrame, gwr>>

\* the promise of an fn() that lost the race to the timer settles, at any
\* later time; its outcome is ignored
AbandonedSettles ==
    /\ oai.pc # "none"
    /\ oai.abandoned > 0
    /\ oai' = [oai EXCEPT !.abandoned = @ - 1]
    /\ UNCHANGED <<retryFrame, gwr>>

NextCallOpenAI ==
    InvokeFn \/ Settle \/ MaxRetriesExceeded \/ AbandonedSettles

SpecCallOpenAI == InitCallOpenAI /\ [][NextCallOpenAI]_vars

\* ---------------------------------- MCQ normalisation (features/issue-22)
\* A string is the sequence of its characters. The characters of the model:
\* letters inside and outside a-d in both cases, the separators, the dash of
\* a range and the letters of the alias "all"
McqChars == {"A", "a", "b", "C", "E", "f", "l", ",", " ", "-"}

LowerCase == ("A" :> "a") @@ ("B" :> "b") @@ ("C" :> "c") @@ ("D" :> "d")
             @@ ("E" :> "e") @@ ("F" :> "f") @@ ("L" :> "l") @@ ("N" :> "n")

UpperCase == ("a" :> "A") @@ ("b" :> "B") @@ ("c" :> "C") @@ ("d" :> "D")
             @@ ("e" :> "E") @@ ("f" :> "F") @@ ("l" :> "L") @@ ("n" :> "N")

\* String.prototype.toLowerCase / toUpperCase, character by character
toLowerCase(str) ==
    [k \in 1..Len(str) |-> IF str[k] \in DOMAIN LowerCase
                           THEN LowerCase[str[k]] ELSE str[k]]

toUpperCase(str) ==
    [k \in 1..Len(str) |-> IF str[k] \in DOMAIN UpperCase
                           THEN UpperCase[str[k]] ELSE str[k]]

\* charCodeAt(0) of the letters
charCode == ("A" :> 65) @@ ("B" :> 66) @@ ("C" :> 67) @@ ("D" :> 68)
            @@ ("E" :> 69) @@ ("F" :> 70) @@ ("L" :> 76)
            @@ ("a" :> 97) @@ ("b" :> 98) @@ ("c" :> 99) @@ ("d" :> 100)
            @@ ("e" :> 101) @@ ("f" :> 102) @@ ("l" :> 108)

\* String.fromCharCode on 65..68
fromCharCode(code) == CHOOSE c \in {"A", "B", "C", "D"} : charCode[c] = code

\* String.prototype.trim
RECURSIVE trim(_)
trim(str) ==
    IF str = <<>> THEN <<>>
    ELSE IF str[1] = " " THEN trim(Tail(str))
    ELSE IF str[Len(str)] = " " THEN trim(SubSeq(str, 1, Len(str) - 1))
    ELSE str

\* String.prototype.includes
includes(str, part) ==
    \E k \in 0..(Len(str) - Len(part)) : SubSeq(str, k + 1, k + Len(part)) = part

\* [a-dA-D]
IsAtoD(c) == c \in {"a", "b", "c", "d", "A", "B", "C", "D"}

\* Array.prototype.sort of single letters: by code unit
RECURSIVE sortLetters(_)
sortLetters(set) ==
    IF set = {} THEN <<>>
    ELSE LET least == CHOOSE c \in set : \A d \in set : charCode[c] <= charCode[d]
         IN <<least>> \o sortLetters(set \ {least})

\* the aliases of all choices; each Japanese alias is one symbol, written
\* in Latin letters
allAliases == {<<"a", "l", "l">>, <<"subete">>, <<"zenbu (kanji)">>,
               <<"subete (kanji)">>, <<"zenbu">>}

\* cleaned.match of the range pattern, a letter of [a-dA-D], a dash (hyphen,
\* wave dash or tilde) between optional white space, and a letter again:
\* the two letters, or <<>> when there is no match
rangeMatch(cleaned) ==
    IF /\ Len(cleaned) >= 3
       /\ IsAtoD(cleaned[1])
       /\ IsAtoD(cleaned[Len(cleaned)])
       /\ \E d \in 2..(Len(cleaned) - 1) :
             /\ cleaned[d] \in {"-", "wave dash", "~"}
             /\ \A k \in 2..(Len(cleaned) - 1) : k # d => cleaned[k] = " "
    THEN <<cleaned[1], cleaned[Len(cleaned)]>>
    ELSE <<>>

McqResult(normalized, isValid, hasWarnings, warnings, message) ==
    [normalized |-> normalized, isValid |-> isValid,
     hasWarnings |-> hasWarnings, warnings |-> warnings, error |-> message]

Warning(text, letters) == [text |-> text, letters |-> letters]

\* normalizeMcq(input, choices); hasWarnings tells whether the warnings
\* property of the result is defined
normalizeMcq(input, choices) ==
    LET cleaned == trim(input)
        lowerInput == toLowerCase(cleaned)
        m == rangeMatch(cleaned)
        lowerChoices == Range(toLowerCase(choices))
        letters == SelectSeq(cleaned, IsAtoD)
        normalized == sortLetters(Range(toLowerCase(letters)))
        IsValidLetter(c) == c \in lowerChoices
        IsInvalidLetter(c) == c \notin lowerChoices
        invalidChoices == SelectSeq(normalized, IsInvalidLetter)
        warnings == IF Len(invalidChoices) > 0
                    THEN <<Warning("Invalid choices detected",
                                   toUpperCase(invalidChoices))>>
                    ELSE <<>>
        validNormalized == SelectSeq(normalized, IsValidLetter)
    IN IF cleaned = <<>>
       THEN McqResult(<<>>, FALSE, FALSE, <<>>, "Input is empty")
       ELSE IF lowerInput \in allAliases
       THEN McqResult(toLowerCase(choices), TRUE, FALSE, <<>>, "")
       ELSE IF m # <<>> /\ charCode[toUpperCase(m)[1]] <= charCode[toUpperCase(m)[2]]
       THEN LET startCode == charCode[toUpperCase(m)[1]]
                endCode == charCode[toUpperCase(m)[2]]
                InChoices(c) == c \in Range(choices)
                range == SelectSeq([k \in 1..(endCode - startCode + 1) |->
                                       fromCharCode(startCode + k - 1)],
                                   InChoices)
            IN McqResult(toLowerCase(range), TRUE, FALSE, <<>>, "")
       ELSE IF Len(letters) > 0
       THEN IF Len(validNormalized) = 0
            THEN McqResult(<<>>, FALSE, TRUE, warnings, "No valid choices found")
            ELSE McqResult(validNormalized, TRUE, Len(warnings) > 0, warnings, "")
       ELSE McqResult(<<>>, FALSE, FALSE, <<>>, "Could not parse input")

\* the characters of an answer copied from a choice text: letters outside
\* a-d and the letter c
TextChars == {"t", "y", "c", "h", "g"}

\* choiceTexts: the keys in insertion order and the text of each
ChoiceKeys == <<"A", "B", "C", "D">>

ChoiceTexts == ("A" :> <<"t", "y", "c">>) @@ ("B" :> <<"h", "g", "h">>)
               @@ ("C" :> <<"t", "h", "g">>) @@ ("D" :> <<"y", "y", "y">>)

\* normalizeMcqWithText(input, choiceTexts): the standard result if valid,
\* else the choices whose text contains the input or is contained in it
normalizeMcqWithText(input, keys, choiceTexts) ==
    LET standardResult == normalizeMcq(input, keys)
        lowerInput == trim(toLowerCase(input))
        Matches(letter) ==
            LET lowerText == trim(toLowerCase(choiceTexts[letter]))
            IN includes(lowerInput, lowerText) \/ includes(lowerText, lowerInput)
        matched == toLowerCase(SelectSeq(keys, Matches))
    IN IF standardResult.isValid THEN standardResult
       ELSE IF Len(matched) > 0
       THEN McqResult(sortLetters(Range(matched)), TRUE, TRUE,
                      <<Warning("Matched based on choice text content", <<>>)>>,
                      "")
       ELSE standardResult

NoMcqResult == McqResult(<<>>, FALSE, FALSE, <<>>, "not returned")

\* one of the two functions is called with an answer typed by the user
InitMcq ==
    /\ IdleRun
    /\ gwr = NoCall
    /\ oai = NoCall
    /\ \/ \E input \in SeqsOf(McqChars, 0, MaxInputLen),
             choices \in {<<"A", "B", "C", "D">>, <<"A", "B">>} :
             call = [pc |-> "called", fn |-> "normalizeMcq", input |-> input,
                     choices |-> choices, result |-> NoMcqResult]
       \/ \E input \in SeqsOf(TextChars \cup {" "}, 0, MaxInputLen) :
             call = [pc |-> "called", fn |-> "normalizeMcqWithText",
                     input |-> input, choices |-> ChoiceKeys,
                     result |-> NoMcqResult]

callFrame == <<inputs, pc, issues, dag, schedVars, nodeVars, exitCode,
               reviewVars, gitVars, retryVars>>

NormalizeMcq ==
    /\ call.pc = "called"
    /\ call.fn = "normalizeMcq"
    /\ call' = [call EXCEPT !.pc = "returned",
                            !.result = normalizeMcq(call.input, call.choices)]
    /\ UNCHANGED callFrame

NormalizeMcqWithText ==
    /\ call.pc = "called"
    /\ call.fn = "normalizeMcqWithText"
    /\ call' = [call EXCEPT !.pc = "returned",
                   !.result = normalizeMcqWithText(call.input, call.choices,
                                                   ChoiceTexts)]
    /\ UNCHANGED callFrame

NextMcq == NormalizeMcq \/ NormalizeMcqWithText

SpecMcq == InitMcq /\ [][NextMcq]_vars

\* ------------------------------------------ audit log (features/issue-31)
\* JSON values of requestData: a scalar, an object (keys to values) or an
\* array (a sequence of values)
Scalar(x) == [t |-> "scalar", v |-> x]

Object(fields) == [t |-> "object", v |-> fields]

Array(items) == [t |-> "array", v |-> items]

MASKED == "***MASKED***"

\* const piiFields = ["email", "name", "phone", "address", "ssn",
\* "password", "token"], as character sequences
piiFields ==
    {<<"e", "m", "a", "i", "l">>, <<"n", "a", "m", "e">>,
     <<"p", "h", "o", "n", "e">>, <<"a", "d", "d", "r", "e", "s", "s">>,
     <<"s", "s", "n">>, <<"p", "a", "s", "s", "w", "o", "r", "d">>,
     <<"t", "o", "k", "e", "n">>}

\* piiFields.some((field) => key.toLowerCase().includes(field))
IsPIIKey(key) == \E field \in piiFields : includes(toLowerCase(key), field)

\* maskPIIInObject(obj): a PII key is masked, a plain object is descended
\* into, anything else (scalars, null, arrays) is copied
RECURSIVE maskPIIInObject(_)
maskPIIInObject(obj) ==
    [key \in DOMAIN obj |->
        IF IsPIIKey(key) THEN Scalar(MASKED)
        ELSE IF obj[key].t = "object" THEN Object(maskPIIInObject(obj[key].v))
        ELSE obj[key]]

\* createHash("sha256").update(pii).digest("hex")
hashPII(pii) == <<"sha256", pii>>

\* createAuditLog(action, data): the userId and requestData of the entry
createAuditLog(data) ==
    [userId |-> IF data.userId # Undefined /\ data.userId # Str("")
                THEN hashPII(data.userId[2]) ELSE Undefined,
     hasRequestData |-> data.hasRequestData,
     requestData |-> IF data.hasRequestData
                     THEN maskPIIInObject(data.requestData) ELSE <<>>]

\* the keys of the requests: "userName" and "email" hold a PII field name
KeyEmail == <<"e", "m", "a", "i", "l">>

KeyUserName == <<"u", "s", "e", "r", "N", "a", "m", "e">>

KeyAge == <<"a", "g", "e">>

KeyData == <<"d", "a", "t", "a">>

KeyItems == <<"i", "t", "e", "m", "s">>

\* objects over the keys K whose values are drawn from V
ObjectsOver(K, V) == UNION {[D -> V] : D \in SUBSET K}

\* requestData of up to two levels: scalars, nested objects, and arrays of
\* objects
RequestData ==
    LET raw == Scalar("john@example.com")
        inner == ObjectsOver({KeyEmail, KeyAge}, {raw})
    IN ObjectsOver({KeyUserName, KeyData, KeyItems},
                   {raw} \cup {Object(o) : o \in inner}
                         \cup {Array(<<Object(o)>>) : o \in inner})

NoAuditLog == [userId |-> Undefined, hasRequestData |-> FALSE, requestData |-> <<>>]

InitAudit ==
    /\ IdleRun
    /\ gwr = NoCall
    /\ oai = NoCall
    /\ \E userId \in {Undefined, Str(""), Str("user@example.com")},
          hasRequestData \in BOOLEAN, requestData \in RequestData :
          /\ ~hasRequestData => requestData = <<>>
          /\ call = [pc |-> "called", fn |-> "createAuditLog",
                     data |-> [userId |-> userId,
                               hasRequestData |-> hasRequestData,
                               requestData |-> requestData],
                     result |-> NoAuditLog]

CreateAuditLog ==
    /\ call.pc = "called"
    /\ call.fn = "createAuditLog"
    /\ call' = [call EXCEPT !.pc = "returned",
                            !.result = createAuditLog(call.data)]
    /\ UNCHANGED callFrame

NextAudit == CreateAuditLog

SpecAudit == InitAudit /\ [][NextAudit]_vars

\* --------------------------------------------- CodeGenAgent generation mode
\* process.env.USE_TASK_TOOL and process.env.ANTHROPIC_API_KEY: unset or a
\* string
TaskToolEnv == {Undefined, Str("true"), Str("false"), Str("TRUE"), Str("1")}

ApiKeyEnv == {Undefined, Str(""), Str("sk-ant")}

\* the second constructor argument: omitted (the executor's call), or given
UseTaskToolArg == {"omitted", "true", "false"}

\* constructor(apiKey?: string, useTaskTool: boolean = true)
CodeGenAgent(apiKey, useTaskToolArg, env) ==
    LET useTaskToolParam == useTaskToolArg # "false"
        useTaskTool == useTaskToolParam \/ env.USE_TASK_TOOL = Str("true")
    IN [useTaskTool |-> useTaskTool,
        enabled |-> ~Falsy(apiKey) \/ useTaskTool,
        anthropic |-> ~Falsy(apiKey) /\ ~useTaskTool]

\* the branch generateCode takes
generateCodeMode(agent) ==
    IF agent.useTaskTool THEN "taskTool"
    ELSE IF ~agent.enabled \/ ~agent.anthropic THEN "mock"
    ELSE "api"

NoAgent == [useTaskTool |-> FALSE, enabled |-> FALSE, anthropic |-> FALSE]

\* loadConfig has read the environment; a CodeGenAgent is about to be made
InitCodeGen ==
    /\ IdleRun
    /\ gwr = NoCall
    /\ oai = NoCall
    /\ \E useTaskToolEnv \in TaskToolEnv, apiKeyEnv \in ApiKeyEnv,
          useTaskToolArg \in UseTaskToolArg :
          call = [pc |-> "called", fn |-> "CodeGenAgent",
                  env |-> [USE_TASK_TOOL |-> useTaskToolEnv,
                           ANTHROPIC_API_KEY |-> apiKeyEnv],
                  useTaskToolArg |-> useTaskToolArg,
                  agent |-> NoAgent, mode |-> "none"]

\* new CodeGenAgent(config.anthropicApiKey [, useTaskTool])
ConstructCodeGen ==
    /\ call.pc = "called"
    /\ call.fn = "CodeGenAgent"
    /\ call' = [call EXCEPT !.pc = "constructed",
                   !.agent = CodeGenAgent(call.env.ANTHROPIC_API_KEY,
                                          call.useTaskToolArg, call.env)]
    /\ UNCHANGED callFrame

\* await codeGen.generateCode(request)
GenerateCodeCall ==
    /\ call.pc = "constructed"
    /\ call.fn = "CodeGenAgent"
    /\ call' = [call EXCEPT !.pc = "generated",
                            !.mode = generateCodeMode(call.agent)]
    /\ UNCHANGED callFrame

NextCodeGen == ConstructCodeGen \/ GenerateCodeCall

SpecCodeGen == InitCodeGen /\ [][NextCodeGen]_vars

\* ------------------------------------------ splitIntoChunks (lib/chunking)
\* Texts are sequences of characters: a letter, a sentence ending and a
\* white-space character.
SplitChars == {"a", ".", " "}

SentenceEndings == {"."}

WhiteSpace == {" "}

\* the look-ahead of text.substring(startChar, endChar + 100)
LookAhead == 100

Clamp(n, len) == IF n < 0 THEN 0 ELSE IF n > len THEN len ELSE n

\* String.prototype.substring: both indexes are clamped to 0..length and
\* swapped when the first is the greater
substring(text, from, to) ==
    LET a == Clamp(from, Len(text))
        b == Clamp(to, Len(text))
    IN IF a <= b THEN SubSeq(text, a + 1, b) ELSE SubSeq(text, b + 1, a)

\* the indexes (from 0) of the matches of /[.!?]\s/g in textSlice
matchAll(textSlice) ==
    {i \in 0..(Len(textSlice) - 2) :
        /\ textSlice[i + 1] \in SentenceEndings
        /\ textSlice[i + 2] \in WhiteSpace}

\* endChar of the chunk that starts at startChar (body of the while loop up
\* to chunks.push)
chunkEnd(text, startChar, chunkSize) ==
    LET endChar == startChar + chunkSize
    IN IF endChar < Len(text)
       THEN LET textSlice == substring(text, startChar, endChar + LookAhead)
                matches == matchAll(textSlice)
            IN IF matches # {}
               THEN LET lastMatch == CHOOSE i \in matches :
                                         \A j \in matches : j <= i
                    IN startChar + lastMatch + 2
               ELSE endChar
       ELSE Len(text)

TextChunk(text, index, startChar, endChar) ==
    [text |-> text, index |-> index, startChar |-> startChar,
     endChar |-> endChar]

SplitTexts == SeqsOf(SplitChars, 0, MaxTextLen)

InitSplit ==
    /\ IdleRun
    /\ gwr = NoCall
    /\ oai = NoCall
    /\ \E text \in SplitTexts, chunkSize \in 1..MaxChunkSize :
       \E overlap \in 0..(chunkSize - 1) :
          call = [pc |-> "called", fn |-> "splitIntoChunks", text |-> text,
                  chunkSize |-> chunkSize, overlap |-> overlap,
                  startChar |-> 0, index |-> 0, chunks |-> <<>>]

\* text.length <= chunkSize: the whole text is the one chunk
SplitWhole ==
    /\ call.pc = "called"
    /\ call.fn = "splitIntoChunks"
    /\ Len(call.text) <= call.chunkSize
    /\ call' = [call EXCEPT !.pc = "returned",
                   !.chunks = <<TextChunk(call.text, 0, 0, Len(call.text))>>]
    /\ UNCHANGED callFrame

\* const chunks = []; let startChar = 0; let index = 0; first test of the
\* while condition (true: text.length > chunkSize >= 1)
SplitEnter ==
    /\ call.pc = "called"
    /\ call.fn = "splitIntoChunks"
    /\ Len(call.text) > call.chunkSize
    /\ call' = [call EXCEPT !.pc = "loop"]
    /\ UNCHANGED callFrame

\* one iteration of the while loop, the break or the next test of the
\* condition included
SplitStep ==
    /\ call.pc = "loop"
    /\ call.fn = "splitIntoChunks"
    /\ Len(call.chunks) < MaxChunks
    /\ LET endChar == chunkEnd(call.text, call.startChar, call.chunkSize)
           startChar == endChar - call.overlap
       IN call' = [call EXCEPT
                      !.chunks = Append(@, TextChunk(
                          trim(substring(call.text, call.startChar, endChar)),
                          call.index, call.startChar, endChar)),
                      !.startChar = startChar,
                      !.index = @ + 1,
                      !.pc = IF startChar >= Len(call.text)
                             THEN "returned" ELSE "loop"]
    /\ UNCHANGED callFrame

NextSplit == SplitWhole \/ SplitEnter \/ SplitStep

SpecSplit == InitSplit /\ [][NextSplit]_vars

\* ---------------------------- --concurrency and the batches of one level
\* A JavaScript number that is an integer or NaN.
Num(n) == [nan |-> FALSE, n |-> n]

NaN == [nan |-> TRUE, n |-> 0]

\* a < b on numbers: false when either is NaN
Less(a, b) == ~a.nan /\ ~b.nan /\ a.n < b.n

\* a + b on numbers: NaN when either is NaN
Add(a, b) == IF a.nan \/ b.nan THEN NaN ELSE Num(a.n + b.n)

Digits == [c \in {"0", "1", "2"} |-> CASE c = "0" -> 0 [] c = "1" -> 1
                                         [] OTHER -> 2]

\* the value of the longest prefix of decimal digits of str, NaN if empty
RECURSIVE parseDigits(_, _, _)
parseDigits(str, acc, seen) ==
    IF str # <<>> /\ str[1] \in DOMAIN Digits
    THEN parseDigits(Tail(str), 10 * acc + Digits[str[1]], TRUE)
    ELSE IF seen THEN Num(acc) ELSE NaN

\* parseInt(str, 10): an optional sign, then the leading decimal digits
\* (-0 is 0 in every comparison and addition of the loop)
parseInt(str) ==
    IF str # <<>> /\ str[1] = "-"
    THEN LET v == parseDigits(Tail(str), 0, FALSE)
         IN IF v.nan THEN NaN ELSE Num(0 - v.n)
    ELSE parseDigits(str, 0, FALSE)

\* parseInt(number, 10): the number is converted to a string first
parseIntOfNumber(num) == num

\* a relative index of Array.prototype.slice: NaN is 0, a negative index
\* counts from the end
RelativeIndex(k, len) ==
    IF k.nan THEN 0
    ELSE IF k.n < 0 THEN Max(len + k.n, 0)
    ELSE IF k.n > len THEN len ELSE k.n

\* array.slice(start, end)
slice(array, start, end) ==
    LET from == RelativeIndex(start, Len(array))
        to == RelativeIndex(end, Len(array))
    IN IF from < to THEN SubSeq(array, from + 1, to) ELSE <<>>

OptionChars == {"-", "0", "1", "2", "x"}

\* the value of --concurrency ("2" when the option is absent) and of the
\* environment variable DEFAULT_CONCURRENCY (empty when unset)
OptionStrings == SeqsOf(OptionChars, 0, MaxOptionLen)

DefaultConcurrencyEnv == {<<>>, <<"1">>, <<"x">>}

\* parseInt(process.env.DEFAULT_CONCURRENCY || "2", 10)
defaultConcurrency(env) == parseInt(IF env = <<>> THEN <<"2">> ELSE env)

\* parseInt(options.concurrency || config.defaultConcurrency, 10)
concurrencyArg(option, env) ==
    IF option = <<>> THEN parseIntOfNumber(defaultConcurrency(env))
    ELSE parseInt(option)

InitBatching ==
    /\ IdleRun
    /\ gwr = NoCall
    /\ oai = NoCall
    /\ \E option \in OptionStrings, env \in DefaultConcurrencyEnv,
          n \in 1..MaxLevelNodes :
          call = [pc |-> "main", fn |-> "executeDAG", option |-> option,
                  env |-> env, levelNodes |-> [k \in 1..n |-> k],
                  concurrency |-> NaN, i |-> Num(0), batches |-> <<>>,
                  batchNo |-> 0, executed |-> <<>>]

\* main() passes parseInt(options.concurrency || ...) to executeDAG, which
\* reaches a level with levelNodes.length > 0: batches = [], i = 0
EnterLevel ==
    /\ call.pc = "main"
    /\ call.fn = "executeDAG"
    /\ call' = [call EXCEPT !.pc = "partition",
                   !.concurrency = concurrencyArg(call.option, call.env)]
    /\ UNCHANGED callFrame

\* i < levelNodes.length: batches.push(levelNodes.slice(i, i + concurrency));
\* i += concurrency
PushBatch ==
    /\ call.pc = "partition"
    /\ call.fn = "executeDAG"
    /\ Less(call.i, Num(Len(call.levelNodes)))
    /\ Len(call.batches) < MaxBatches
    /\ call' = [call EXCEPT
                   !.batches = Append(@, slice(call.levelNodes, call.i,
                                               Add(call.i, call.concurrency))),
                   !.i = Add(@, call.concurrency)]
    /\ UNCHANGED callFrame

\* the partitioning loop ends
EndPartition ==
    /\ call.pc = "partition"
    /\ call.fn = "executeDAG"
    /\ ~Less(call.i, Num(Len(call.levelNodes)))
    /\ call' = [call EXCEPT !.pc = "run"]
    /\ UNCHANGED callFrame

\* for (const batch of batches) await Promise.all(batch.map(...)): the
\* pipelines of the batch are started; the Promise.all is fulfilled, or
\* (with at least one pipeline) rejected
ExecuteBatch ==
    /\ call.pc = "run"
    /\ call.fn = "executeDAG"
    /\ call.batchNo < Len(call.batches)
    /\ LET batch == call.batches[call.batchNo + 1]
       IN \E ok \in BOOLEAN :
             /\ batch = <<>> => ok
             /\ call' = [call EXCEPT !.executed = @ \o batch,
                                     !.batchNo = @ + 1,
                                     !.pc = IF ok THEN "run" ELSE "rejected"]
    /\ UNCHANGED callFrame

\* every batch of the level has been awaited
LevelDone ==
    /\ call.pc = "run"
    /\ call.fn = "executeDAG"
    /\ call.batchNo = Len(call.batches)
    /\ call' = [call EXCEPT !.pc = "done"]
    /\ UNCHANGED callFrame

NextBatching ==
    EnterLevel \/ PushBatch \/ EndPartition \/ ExecuteBatch \/ LevelDone

SpecBatching == InitBatching /\ [][NextBatching]_vars

\* ================================================================ properties
\* the pipeline of dag index i has begun (its callback has been called)
Started(i) == stage[i] # "idle"

\* the pipeline of i has failed: its catch block was entered or its promise
\* was rejected
Failed(i) == stage[i] = "failed" \/ error[i] # ""

\* the chunk of i within its level: levelNodes.slice(c * k, c * k + k)
PosInLevel(i) ==
    LET levelNodes == LevelNodes(dag, dag[i].level)
    IN CHOOSE p \in 1..Len(levelNodes) : levelNodes[p] = i

ChunkOf(i) == (PosInLevel(i) - 1) \div concurrency

\* j belongs to an earlier level than i, or to an earlier chunk of i's level
Before(j, i) ==
    \/ dag[j].level < dag[i].level
    \/ dag[j].level = dag[i].level /\ ChunkOf(j) < ChunkOf(i)

\* C1: levels run in ascending order, and a node's pipeline has begun only
\* when every node of the earlier chunks of its level, and of the earlier
\* levels, has settled; the pipelines in flight are those of the current level
C1_ChunksAndLevelsInOrder ==
    \A i \in DOMAIN stage :
        /\ Started(i) => dag[i].level <= level
        /\ \A j \in DOMAIN stage :
              Started(i) /\ Before(j, i) => stage[j] \in Settled

\* a second chunk of level 0 and a node of level 1 have begun
C1_LaterChunkAndLevelStarted ==
    \E i \in DOMAIN stage, j \in DOMAIN stage, n \in DOMAIN stage :
        /\ dag[i].level = dag[j].level
        /\ ChunkOf(j) < ChunkOf(i)
        /\ Started(i)
        /\ dag[n].level > dag[i].level
        /\ Started(n)

\* C2: once the pipeline (or the in-scheduler fetch) of a node has failed, no
\* node of a later chunk of its level or of a later level has begun, and a
\* rejected node has ended the process with exit code 1
C2_FailFast ==
    \A i \in DOMAIN stage :
        /\ stage[i] = "failed" => pc = "exited" /\ exitCode = 1
        /\ \A j \in DOMAIN stage :
              Failed(i) /\ Before(i, j) => stage[j] = "idle"

\* a node was rejected while a sibling of its chunk was in flight, and a node
\* of a later level is left unstarted
C2_FailedWithSiblingInFlight ==
    \E i \in DOMAIN stage, s \in DOMAIN stage, j \in DOMAIN stage :
        /\ stage[i] = "failed"
        /\ s # i
        /\ dag[s].level = dag[i].level
        /\ ChunkOf(s) = ChunkOf(i)
        /\ stage[s] \in InFlight
        /\ Before(i, j)
        /\ stage[j] = "idle"

\* the pipelines of level l that have begun and not settled
InFlightOfLevel(l) ==
    {i \in DOMAIN stage : dag[i].level = l /\ stage[i] \in InFlight}

\* C3: at most concurrency pipelines of one level are in flight
C3_ConcurrencyBound ==
    \A i \in DOMAIN stage :
        Cardinality(InFlightOfLevel(dag[i].level)) <= concurrency

\* a level of more than k = 2 nodes with k pipelines in flight
C3_FullChunkInFlight ==
    \E i \in DOMAIN stage :
        /\ concurrency > 1
        /\ Len(LevelNodes(dag, dag[i].level)) > concurrency
        /\ Cardinality(InFlightOfLevel(dag[i].level)) = concurrency

\* the supplied tasks, and "the text of n references d"
Supplied == Range(issueNumbers)

References(n, d) == d \in Range(parseDependencies(tracker[n]))

\* the supplied tasks reached from the tasks of S by up to k more references
RECURSIVE ReachedFrom(_, _)
ReachedFrom(S, k) ==
    IF k = 0 THEN S
    ELSE ReachedFrom(S \cup {d \in Supplied : \E n \in S : References(n, d)},
                     k - 1)

\* no supplied task reaches itself along references between supplied tasks
Acyclic ==
    \A n \in Supplied :
        n \notin ReachedFrom({d \in Supplied : References(n, d)}, NumIds)

\* C4: on an acyclic list of supplied tasks, the pipeline of a node n has begun
\* only when the pipeline of every supplied task d that n's text references
\* has completed successfully
C4_DependenciesAwaited ==
    Acyclic =>
        \A i \in DOMAIN stage, j \in DOMAIN stage :
            References(dag[i].number, dag[j].number) /\ Started(i)
                => stage[j] = "done"

\* buildDAG has returned
Built == pc = "executeDAG"

\* the greatest final level among the nodes whose id is in D
MaxLevelOf(D) ==
    LET ls == {dag[j].level : j \in {k \in 1..Len(dag) : dag[k].id \in D}}
    IN CHOOSE l \in ls : \A m \in ls : m <= l

\* C5: after buildDAG a node without parsed dependencies has level 0, and a
\* node whose dependencies D are non-empty and all among the supplied tasks
\* has level 1 + the greatest final level of the nodes of D. Stated for
\* acyclic input: on a cycle no levels satisfy the equation.
C5_LevelFormula ==
    Built /\ Acyclic =>
        \A i \in 1..Len(dag) :
            LET D == Range(dag[i].dependencies)
            IN /\ D = {} => dag[i].level = 0
               /\ (D # {} /\ \A d \in D : \E j \in 1..Len(dag) : dag[j].id = d)
                     => dag[i].level = 1 + MaxLevelOf(D)

\* C6: on acyclic input, a node of the output has a greater level than every
\* node of the output that is one of its dependencies
C6_LevelInvariant ==
    Built /\ Acyclic =>
        \A i \in 1..Len(dag), j \in 1..Len(dag) :
            dag[j].id \in Range(dag[i].dependencies)
                => dag[i].level > dag[j].level

\* C7: buildDAG returns one node per supplied task (the node of position p is
\* that of the p-th task), levels never decrease along the output, and nodes
\* of equal level stand in the order in which their tasks were supplied
C7_OneNodePerTaskSortedStable ==
    Built =>
        /\ Len(dag) = Len(issues)
        /\ {dag[i].pos : i \in 1..Len(dag)} = 1..Len(issues)
        /\ \A i \in 1..Len(dag) :
              /\ dag[i].number = issues[dag[i].pos].number
              /\ dag[i].id = IssueId(dag[i].number)
        /\ \A i \in 1..(Len(dag) - 1) : dag[i].level <= dag[i + 1].level
        /\ \A i \in 1..Len(dag), j \in 1..Len(dag) :
              i < j /\ dag[i].level = dag[j].level => dag[i].pos < dag[j].pos

\* the sort moved a node in front of one supplied before it, and two nodes of
\* one level kept their order
C7_SortedWithTies ==
    /\ Built
    /\ \E i \in 1..Len(dag), j \in 1..Len(dag) :
          i < j /\ dag[i].pos > dag[j].pos
    /\ \E i \in 1..Len(dag), j \in 1..Len(dag) :
          i < j /\ dag[i].level = dag[j].level /\ dag[i].level > 0

IsPrefix(s, t) == Len(s) <= Len(t) /\ s = SubSeq(t, 1, Len(s))

\* the side effects of Step 4
PublishEffects == {"branch", "commit", "push", "pr", "prLabels"}

\* the review of node i has returned a result that did not pass
ReviewFailed(i) == review[i] # NoReview /\ ~review[i].passed

\* C8: the stages a node has entered are the first stages of classify,
\* generate, review, publish, each once and in that order; a later stage is
\* entered only with the work of the earlier ones done (labels and files
\* unless --dry-run, a passed review before publish); no publish side effect
\* exists for a node whose review did not pass, and a failed review leaves the
\* node in its catch block or rejected, with generate entered once
C8_StagesInOrderAndGate ==
    \A i \in DOMAIN stage :
        /\ IsPrefix(trail[i], Pipeline)
        /\ Len(trail[i]) >= 2 /\ ~dryRun => "issueLabels" \in effects[i]
        /\ Len(trail[i]) >= 3 =>
              /\ "taskRequest" \in effects[i]
              /\ ~dryRun => "files" \in effects[i]
        /\ Len(trail[i]) >= 4 => review[i] # NoReview /\ review[i].passed
        /\ effects[i] \cap PublishEffects # {} =>
              review[i] # NoReview /\ review[i].passed
        /\ error[i] # "" => stage[i] \in {"catch", "failed"}
        /\ ReviewFailed(i) =>
              /\ trail[i] = SubSeq(Pipeline, 1, 3)
              /\ stage[i] \in {"catch", "failed"}

\* one node has published its pull request and another was rejected after a
\* failed review
C8_PublishedAndReviewFailed ==
    \E i \in DOMAIN stage, j \in DOMAIN stage :
        /\ {"pr", "prLabels"} \subseteq effects[i]
        /\ ReviewFailed(j)
        /\ stage[j] = "failed"

\* C9: a review result has passed = true exactly when its score is at least
\* 80, and executeIssue throws "Code review failed" exactly when passed is
\* false: a passed node enters publish, a failed one its catch block
C9_QualityGate ==
    \A i \in DOMAIN stage :
        review[i] # NoReview =>
            /\ review[i].passed <=> review[i].score >= 80
            /\ ~review[i].passed <=> error[i] = "Code review failed"
            /\ review[i].passed => Len(trail[i]) = 4
            /\ ~review[i].passed => Len(trail[i]) = 3

\* a node with a total of exactly 80 is in its publish stage and a node with
\* a total of 79 is in its catch block
C9_EightyPassesSeventyNineFails ==
    \E i \in DOMAIN stage, j \in DOMAIN stage :
        /\ review[i] # NoReview
        /\ review[i].score = 80
        /\ stage[i] = "publish"
        /\ review[j] # NoReview
        /\ review[j].score = 79
        /\ stage[j] = "catch"
        /\ error[j] = "Code review failed"

\* C10: the TypeScript, ESLint and security scores are 100 minus 10 per
\* error, 5 per error and 2 per warning, 10 per match, floored at 0; the four
\* sub-scores lie in 0..100; the total is 0.3 ts + 0.3 eslint + 0.3 security
\* + 0.1 complexity rounded to the nearest integer (half up), and lies in
\* 0..100
C10_ScoreFormula ==
    pc = "reviewed" =>
        LET d == reviewResult.details
            ts == d.typeScript.score
            es == d.eslint.score
            sec == d.security.score
            comp == d.complexity.score
        IN /\ ts = Max(0, 100 - 10 * d.typeScript.errors)
           /\ es = Max(0, 100 - 5 * d.eslint.errors - 2 * d.eslint.warnings)
           /\ sec = Max(0, 100 - 10 * d.security.vulnerabilities)
           /\ {ts, es, sec, comp} \subseteq 0..100
           /\ reviewResult.score \in 0..100
           /\ reviewResult.score = (3 * ts + 3 * es + 3 * sec + comp + 5) \div 10

\* executeIssue was called for node i (its fetch in the scheduler succeeded)
PipelineStarted(i) == trail[i] # <<>>

\* the appendFile calls of node i, and the records of node i in the file
WritesOf(i) == SelectSeq(log, LAMBDA r : r.node = i)

RecordsOf(i) == SelectSeq(log, LAMBDA r : r.node = i /\ r.written)

\* C11: a node whose pipeline was started and has settled, and whose log
\* writes all succeeded, has exactly one record in the log: a success record
\* iff it walked all four stages and resolved, otherwise a failure record
\* with the caught error, the node being rejected; no node has both a
\* success and a failure record
C11_OneLogRecordPerSettledNode ==
    \A i \in DOMAIN stage :
        /\ (PipelineStarted(i) /\ stage[i] \in Settled
               /\ WritesOf(i) = RecordsOf(i)) =>
              /\ Len(RecordsOf(i)) = 1
              /\ RecordsOf(i)[1].status = "Success"
                    <=> (stage[i] = "done" /\ trail[i] = Pipeline)
              /\ RecordsOf(i)[1].status = "Failed" =>
                    /\ stage[i] = "failed"
                    /\ error[i] # ""
                    /\ RecordsOf(i)[1].detail = error[i]
        /\ {r.status : r \in Range(RecordsOf(i))} # {"Success", "Failed"}

\* one node has its success record and another, rejected after a failed
\* review, its failure record
C11_SuccessAndFailureLogged ==
    \E i \in DOMAIN stage, j \in DOMAIN stage :
        /\ stage[i] = "done"
        /\ Len(RecordsOf(i)) = 1
        /\ stage[j] = "failed"
        /\ Len(RecordsOf(j)) = 1
        /\ RecordsOf(j)[1].detail = "Code review failed"

\* the fetch of node i in the batch callback was rejected
FetchFailed(i) == stage[i] = "failed" /\ trail[i] = <<>>

\* prAgent.addLabels failed for node i: its pull request exists without labels
PRLabelsFailed(i) == "pr" \in effects[i] /\ "prLabels" \notin effects[i]

\* an operation of node i raised a failure: its fetch in the scheduler, an
\* operation caught by executeIssue, or the labelling of its pull request
OperationFailed(i) == FetchFailed(i) \/ error[i] # "" \/ PRLabelsFailed(i)

\* C12: a settled node one of whose operations raised a failure was rejected
\* to the scheduler and has a failure entry appended to the log
C12_NoErrorSwallowed ==
    \A i \in DOMAIN stage :
        stage[i] \in Settled /\ OperationFailed(i) =>
            /\ stage[i] = "failed"
            /\ \E r \in Range(WritesOf(i)) : r.status = "Failed"

\* s is another node of the chunk of i
Sibling(s, i) ==
    s # i /\ dag[s].level = dag[i].level /\ ChunkOf(s) = ChunkOf(i)

\* C13: the process does not end on the failure of a node before the
\* siblings of its chunk have run to the end of their pipelines: once it has
\* ended, every sibling of a rejected node has settled and has its outcome
\* appended to the log
C13_SiblingsRunToTheEnd ==
    pc = "exited" =>
        \A i \in DOMAIN stage, s \in DOMAIN stage :
            stage[i] = "failed" /\ Sibling(s, i) =>
                /\ stage[s] \in Settled
                /\ WritesOf(s) # <<>>

\* C14: in every interleaving of the publish stages of the nodes of a chunk,
\* the files of an issue are committed on the branch feature/issue-<its
\* number> and on no other issue's branch, locally and on origin, and a
\* created pull request has the files of its issue on its pushed branch
C14_ArtifactsOnOwnBranch ==
    /\ \A n \in 1..NumIds :
          /\ FeatureBranch(n) \in DOMAIN tree.commits =>
                tree.commits[FeatureBranch(n)] \subseteq {n}
          /\ FeatureBranch(n) \in DOMAIN tree.remote =>
                tree.remote[FeatureBranch(n)] \subseteq {n}
    /\ \A i \in DOMAIN stage :
          "pr" \in effects[i] =>
              dag[i].number \in tree.remote[FeatureBranch(dag[i].number)]

Clean == exitCode # 1 /\ \A i \in DOMAIN stage : error[i] = ""

\* the process has ended with code 0, every supplied task having one node
\* whose pipeline walked the four stages once, resolved and logged its success
CompletedOnce ==
    /\ pc = "exited"
    /\ exitCode = 0
    /\ Len(dag) = Len(issueNumbers)
    /\ \A i \in 1..Len(dag) :
          /\ stage[i] = "done"
          /\ trail[i] = Pipeline
          /\ Len(WritesOf(i)) = 1
          /\ WritesOf(i)[1].status = "Success"

\* C16: a run in which no error ever occurs ends with every supplied task's
\* pipeline started and completed exactly once and exit code 0; the process
\* ends with code 0 only so, and with a non-zero code only after a
\* configuration or fetch error of main() or the rejection of a node
C16_CleanRunCompletes ==
    /\ ([]Clean) => <>CompletedOnce
    /\ [](exitCode = 0 => CompletedOnce)
    /\ [](exitCode = 1 =>
            \/ Len(issues) < Len(issueNumbers) \/ issueNumbers = <<>>
            \/ \E i \in DOMAIN stage : stage[i] = "failed")

\* a clean run of three nodes on two levels has ended
C16_ThreeNodesTwoLevelsCompleted ==
    /\ CompletedOnce
    /\ Len(dag) = 3
    /\ \E i \in 1..Len(dag) : dag[i].level = 1

\* main() was left by a configuration error or by a rejected fetch of
\* fetchIssues: the process has ended without a DAG
FailedBeforeDAG == pc = "exited" /\ dag = <<>>

\* C17 as claimed: whenever a configuration error or an issue-fetch error has
\* occurred, the DAG was not built, no pipeline has begun and the exit code
\* is non-zero
C17_ErrorsBeforeScheduling ==
    FailedBeforeDAG \/ (\E i \in DOMAIN stage : FetchFailed(i)) =>
        /\ dag = <<>>
        /\ \A j \in DOMAIN stage : ~Started(j)
        /\ exitCode = 1

\* C17, amended: the DAG is built only from a complete fetch of the supplied
\* issues; a configuration error or a fetch error of fetchIssues ends the
\* process with code 1 before the DAG exists, with no pipeline begun; a fetch
\* error of the batch callback comes after DAG construction, possibly after
\* other pipelines have begun: executeIssue is not called for that node, no
\* node of a later chunk or level has begun, and the exit code is 1
C17_FetchErrorsEndTheRun ==
    /\ dag # <<>> =>
          /\ Len(issues) = Len(issueNumbers)
          /\ \A p \in 1..Len(issues) : issues[p].number = issueNumbers[p]
    /\ FailedBeforeDAG =>
          /\ exitCode = 1
          /\ stage = <<>>
          /\ log = <<>>
    /\ \A i \in DOMAIN stage :
          FetchFailed(i) =>
              /\ pc = "exited"
              /\ exitCode = 1
              /\ effects[i] = {}
              /\ WritesOf(i) = <<>>
              /\ \A j \in DOMAIN stage : Before(i, j) => stage[j] = "idle"

\* the fetch of a node in the scheduler was rejected after the pipeline of a
\* node of an earlier chunk had completed
C17_SchedulerFetchFailedAfterADone ==
    \E i \in DOMAIN stage, j \in DOMAIN stage :
        /\ FetchFailed(i)
        /\ stage[j] = "done"

\* the numbers the claim names for a text: that of the first "relates to #N"
\* clause and those of all "depends: #N" clauses
Named(body) ==
    {body[p].num : p \in {q \in 1..Len(body) :
                            /\ IsRelates(body[q])
                            /\ \A r \in 1..(q - 1) : ~IsRelates(body[r])}}
    \cup {body[p].num : p \in {q \in 1..Len(body) : IsDepends(body[q])}}

\* C18: the dependencies buildDAG has parsed from the body of each task are
\* duplicate-free and are exactly the number of the first "relates to #N"
\* clause together with the numbers of all "depends: #N" clauses; there are
\* none when the body holds neither clause, and parsing the body once more
\* gives the same list
C18_ParsedDependencies ==
    Built =>
        \A i \in 1..Len(dag) :
            LET body == issues[dag[i].pos].body
                deps == dag[i].dependencies
                again == parseDependencies(body)
            IN /\ \A a, b \in 1..Len(deps) : deps[a] = deps[b] => a = b
               /\ Range(deps) = {IssueId(n) : n \in Named(body)}
               /\ (\A p \in 1..Len(body) : body[p] = OtherToken) => deps = <<>>
               /\ deps = [k \in 1..Len(again) |-> IssueId(again[k])]

\* buildDAG has parsed a body with two different "relates to" clauses, of
\* which it kept the first, and a body naming one number in both clauses,
\* which it kept once
C18_SecondRelatesAndDuplicateDropped ==
    /\ Built
    /\ \E i \in 1..Len(dag) :
          LET body == issues[dag[i].pos].body
          IN /\ Len(body) = 2
             /\ IsRelates(body[1]) /\ IsRelates(body[2])
             /\ body[1].num # body[2].num
             /\ dag[i].dependencies = <<IssueId(body[1].num)>>
    /\ \E i \in 1..Len(dag) :
          LET body == issues[dag[i].pos].body
          IN /\ Len(body) = 2
             /\ IsRelates(body[1]) /\ IsDepends(body[2])
             /\ body[1].num = body[2].num
             /\ dag[i].dependencies = <<IssueId(body[1].num)>>

\* the call of generateWithRetry has returned or thrown
GwrSettled == gwr.pc \in {"returned", "rejected"}

\* the error generateWithRetry throws itself
NoFallbackError == Error("Max retries exceeded and no fallback question provided")

\* every candidate generated so far was checked and found a duplicate
AllDuplicates == \A k \in 1..Len(gwr.checks) : gwr.checks[k]

\* C19: generateWithRetry calls generateFn and checkFn alternately, at most
\* maxRetries times each; it returns the first candidate whose check is not
\* a duplicate, with retries the number of rejected candidates and
\* usedFallback false; when all maxRetries candidates are duplicates it
\* returns a supplied fallback with retries = maxRetries and usedFallback
\* true, and it throws its error only when no fallback was supplied
C19_RetryThenFallback ==
    gwr.pc # "none" =>
        /\ \A k \in 1..Len(gwr.calls) :
              gwr.calls[k] = IF k % 2 = 1 THEN "generateFn" ELSE "checkFn"
        /\ Len(gwr.calls) <= 2 * gwr.maxRetries
        /\ gwr.pc = "returned" /\ ~gwr.result.usedFallback =>
              /\ gwr.checks # <<>>
              /\ ~gwr.checks[Len(gwr.checks)]
              /\ \A k \in 1..(Len(gwr.checks) - 1) : gwr.checks[k]
              /\ gwr.result.question = Candidate(Len(gwr.checks))
              /\ gwr.result.retries = Len(gwr.checks) - 1
        /\ GwrSettled /\ AllDuplicates /\ Len(gwr.checks) = gwr.maxRetries
             /\ Len(gwr.calls) = 2 * gwr.maxRetries =>
              IF gwr.fallbackQuestion # Undefined
              THEN /\ gwr.pc = "returned"
                   /\ gwr.result = [question |-> gwr.fallbackQuestion,
                                    retries |-> gwr.maxRetries,
                                    usedFallback |-> TRUE]
              ELSE gwr.pc = "rejected" /\ gwr.error = NoFallbackError
        /\ gwr.pc = "rejected" /\ gwr.error = NoFallbackError =>
              gwr.fallbackQuestion = Undefined

\* the call of callOpenAIWithRetry has returned or thrown
OaiSettled == oai.pc \in {"returned", "rejected"}

\* C20: for maxRetries >= 1 callOpenAIWithRetry invokes fn until the first
\* attempt that succeeds and returns that attempt's value, having invoked fn
\* once more than attempts failed and never more than maxRetries times; when
\* all maxRetries attempts have failed, by rejection or by the timeout, it
\* rejects with the error of the last attempt
C20_RetryUntilSuccess ==
    oai.pc # "none" /\ oai.maxRetries >= 1 =>
        /\ oai.invoked <= oai.maxRetries
        /\ oai.invoked = Len(oai.failures) + (IF oai.pc \in {"race", "returned"}
                                              THEN 1 ELSE 0)
        /\ oai.pc = "returned" =>
              /\ oai.result = Value(oai.invoked)
              /\ oai.invoked = Len(oai.failures) + 1
        /\ oai.pc = "rejected" =>
              /\ Len(oai.failures) = oai.maxRetries
              /\ oai.invoked = oai.maxRetries
              /\ oai.error = oai.failures[oai.maxRetries]
        /\ oai.pc = "loop" => Len(oai.failures) < oai.maxRetries

\* fn succeeded at its third call, after one timeout and one rejection
C20_ThirdAttemptSucceeded ==
    /\ oai.pc = "returned"
    /\ oai.maxRetries >= 3
    /\ oai.failures = <<Error("Timeout"), <<"Error", "Fail", 2>>>>
    /\ oai.result = Value(3)

\* a character that is a letter: neither a separator nor a dash
IsLetterChar(c) == c \notin {",", " ", "-", "wave dash", "~"}

\* letter-format input: single letters separated by commas or white space,
\* as in "A, E, F"
LetterFormat(input) ==
    /\ \E k \in 1..Len(input) : IsLetterChar(input[k])
    /\ \A k \in 1..Len(input) : IsLetterChar(input[k]) \/ input[k] \in {",", " "}
    /\ \A k \in 1..(Len(input) - 1) :
          ~(IsLetterChar(input[k]) /\ IsLetterChar(input[k + 1]))

\* the choice letters of a letter-format input, in lower case
LettersOf(input) == {c \in Range(toLowerCase(input)) : IsLetterChar(c)}

\* C21: for a letter-format input with a letter outside the valid choices,
\* normalizeMcq returns, when a valid letter is present, a valid result whose
\* normalized holds exactly the valid letters and whose warnings are defined
\* and name the invalid letters; when no valid letter is present, an invalid
\* result with the error "No valid choices found"
C21_InvalidChoicesDetected ==
    call.pc = "returned" /\ call.fn = "normalizeMcq" /\ LetterFormat(call.input) =>
        LET valid == LettersOf(call.input) \cap Range(toLowerCase(call.choices))
            invalid == LettersOf(call.input) \ Range(toLowerCase(call.choices))
            r == call.result
        IN invalid # {} =>
              IF valid # {}
              THEN /\ r.isValid
                   /\ Range(r.normalized) = valid
                   /\ r.hasWarnings
                   /\ \E k \in 1..Len(r.warnings) :
                         Range(toLowerCase(r.warnings[k].letters)) = invalid
              ELSE /\ ~r.isValid
                   /\ r.error = "No valid choices found"

\* the choices whose text holds the input as a fragment
FragmentOf(input) ==
    LET lowerInput == trim(toLowerCase(input))
    IN {k \in Range(ChoiceKeys) :
           lowerInput # <<>> /\ includes(toLowerCase(ChoiceTexts[k]), lowerInput)}

\* C22: for an input that is a fragment of the text of exactly one choice
\* and is not letter-format input, normalizeMcqWithText returns a valid
\* result whose normalized is the lower-cased letter of that choice and
\* whose warnings hold "Matched based on choice text content"
C22_MatchedByChoiceText ==
    /\ call.pc = "returned" /\ call.fn = "normalizeMcqWithText"
    /\ ~LetterFormat(call.input)
    /\ Cardinality(FragmentOf(call.input)) = 1
    => LET r == call.result
       IN /\ r.isValid
          /\ Range(r.normalized) = Range(toLowerCase(SelectSeq(ChoiceKeys,
                   LAMBDA k : k \in FragmentOf(call.input))))
          /\ Len(r.normalized) = 1
          /\ r.hasWarnings
          /\ \E k \in 1..Len(r.warnings) :
                r.warnings[k].text = "Matched based on choice text content"

\* the logged value of a request value: under a PII key the mask; else a
\* scalar unchanged, an object or an array with each member logged so
RECURSIVE LoggedAs(_, _)
LoggedAs(value, logged) ==
    /\ logged.t = value.t
    /\ CASE value.t = "scalar" -> logged.v = value.v
         [] value.t = "object" ->
               /\ DOMAIN logged.v = DOMAIN value.v
               /\ \A key \in DOMAIN value.v :
                     IF IsPIIKey(key) THEN logged.v[key] = Scalar(MASKED)
                     ELSE LoggedAs(value.v[key], logged.v[key])
         [] value.t = "array" ->
               /\ Len(logged.v) = Len(value.v)
               /\ \A k \in 1..Len(value.v) : LoggedAs(value.v[k], logged.v[k])

\* C23: in the entry createAuditLog returns, the value of every key of the
\* request data, at any depth, whose name contains a PII field name is
\* "***MASKED***" and every other scalar is unchanged; the logged userId is
\* a hash and differs from the supplied userId
C23_NoRawPII ==
    call.pc = "returned" /\ call.fn = "createAuditLog" =>
        /\ call.data.hasRequestData =>
              /\ call.result.hasRequestData
              /\ LoggedAs(Object(call.data.requestData),
                          Object(call.result.requestData))
        /\ call.data.userId \notin {Undefined, Str("")} =>
              /\ call.result.userId = hashPII(call.data.userId[2])
              /\ call.result.userId # call.data.userId

\* C24: the agent the executor constructs (no second argument) generates in
\* Task-tool mode when USE_TASK_TOOL is "true", with the Claude API when it
\* is not and ANTHROPIC_API_KEY is set, and with the mock implementation
\* when it is not and no key is set
C24_ModeSelectable ==
    call.pc = "generated" /\ call.fn = "CodeGenAgent"
                          /\ call.useTaskToolArg = "omitted" =>
        call.mode = IF call.env.USE_TASK_TOOL = Str("true") THEN "taskTool"
                    ELSE IF ~Falsy(call.env.ANTHROPIC_API_KEY) THEN "api"
                    ELSE "mock"

\* the final level a dependency d contributes: that of its node (the greatest
\* one if several nodes carry the id), 0 when no node carries the id
DepLevel(d) ==
    IF \E j \in 1..Len(dag) : dag[j].id = d THEN MaxLevelOf({d}) ELSE 0

\* the greatest final level among the dependencies D (D non-empty)
MaxDepLevel(D) ==
    LET ls == {DepLevel(d) : d \in D}
    IN CHOOSE l \in ls : \A m \in ls : m <= l

\* C25: on every input, cyclic and self-referencing text included, buildDAG
\* returns (its step is enabled whenever main() has reached it), and every
\* node has a level from 0 to the number of nodes that is 0 without
\* dependencies and otherwise at most 1 + the greatest final level of its
\* dependencies
C25_TerminatesNeverOverComputes ==
    /\ pc = "buildDAG" => ENABLED BuildDAGStep
    /\ Built =>
          \A i \in 1..Len(dag) :
              LET D == Range(dag[i].dependencies)
              IN /\ dag[i].level \in 0..Len(dag)
                 /\ D = {} => dag[i].level = 0
                 /\ D # {} => dag[i].level <= 1 + MaxDepLevel(D)

\* buildDAG has returned from a cyclic input on which a node has a level
\* below 1 + the greatest final level of its dependencies
C25_CycleUnderComputed ==
    /\ Built
    /\ ~Acyclic
    /\ \E i \in 1..Len(dag) :
          /\ dag[i].dependencies # <<>>
          /\ dag[i].id \notin Range(dag[i].dependencies)
          /\ dag[i].level < 1 + MaxDepLevel(Range(dag[i].dependencies))

\* the id of dependency d belongs to no supplied task
Unknown(d) == \A j \in 1..Len(dag) : dag[j].id # d

C27_NoDependencyWithinLevel ==
    Built =>
        \A i \in 1..Len(dag), j \in 1..Len(dag) :
            dag[i].id # dag[j].id /\ dag[j].id \in Range(dag[i].dependencies)
                => dag[i].level # dag[j].level

\* C28: splitIntoChunks returns for 0 <= overlap < chunkSize: the chunks
\* start at strictly increasing positions, so there are never more chunks
\* than positions in the text, and the last chunk of the returned list ends
\* at text.length
C28_SplitAdvancesAndEnds ==
    /\ \A i \in 1..(Len(call.chunks) - 1) :
          call.chunks[i].startChar < call.chunks[i + 1].startChar
    /\ Len(call.chunks) <= Max(1, Len(call.text))
    /\ call.pc = "returned" =>
          /\ call.chunks # <<>>
          /\ call.chunks[Len(call.chunks)].endChar = Len(call.text)

\* the invocations of fn whose promise has not settled
FnInFlight == oai.abandoned + (IF oai.pc = "race" THEN 1 ELSE 0)

\* C29: callOpenAIWithRetry never has more than one invocation of fn in
\* flight, also after an attempt was abandoned on the 30 s timeout
C29_OneInFlight == FnInFlight <= 1

\* the number of batches that node k of the level is in
BatchesOf(k) ==
    Cardinality({<<b, j>> \in (1..Len(call.batches)) \X (1..MaxLevelNodes) :
                    j <= Len(call.batches[b]) /\ call.batches[b][j] = k})

\* C30: for every value of --concurrency the partitioning of a level ends
\* (never more batches than nodes), every node of the level is then in
\* exactly one batch, and every node has been executed once when the level
\* is done
C30_PartitionEndsAndCovers ==
    /\ Len(call.batches) <= Len(call.levelNodes)
    /\ call.pc \in {"run", "rejected", "done"} =>
          \A k \in Range(call.levelNodes) : BatchesOf(k) = 1
    /\ call.pc = "done" => call.executed = call.levelNodes

====
